---- MODULE Spec2Model ----
(***************************************************************************)
(* HelpCrunchExporter (src/index.js): the incremental export pipeline.     *)
(*                                                                         *)
(* Spec        runs of the CLI (main): cache load, list fetch, department  *)
(*             filter, diff against the cache, batch processing with       *)
(*             checkpoint saves, output write; crashes and re-runs.        *)
(* SpecFetch   getConversations alone against a static remote list of up   *)
(*             to MaxRemote conversations (several pages of 100).          *)
(* SpecPages   getConversations alone against arbitrary page responses.    *)
(* SpecFilter  filterConversationsByDepartment alone on bounded inputs.    *)
(***************************************************************************)
EXTENDS Integers, Sequences, FiniteSets, TLC

VARIABLES
    remote,                 \* what the list endpoint serves, in API order
    cacheFile,              \* content of the cache file, or NoFile
    outputFile,             \* content of the primary output file, or NoFile
    pc,                     \* position of the current invocation of main()
    cfg,                    \* the exporter's configuration (constructor)
    cache,                  \* export(): let cache
    offset,                 \* getConversations(): let offset
    requests,               \* the list requests issued so far, with their answers
    conversations,          \* getConversations(): const conversations
    filteredConversations,  \* export(): const filteredConversations
    uncachedConversations,  \* export(): const uncachedConversations
    i,                      \* export(): batch loop index
    k,                      \* position of the inner loop within the batch
    batchResults,           \* export(): const batchResults
    newChatsCount,          \* export(): let newChatsCount
    runs,                   \* invocations of main() so far
    startFile,              \* the cache file as it was when the run began
    processed,              \* ids processConversation was called with, this run
    saves,                  \* cache saves of this run
    written,                \* the ExportOutput this run wrote, if any
    prev,                   \* summary of the previous invocation
    csvFile,                \* content of the CSV summary file, or NoFile
    writtenCsv,             \* the CSV summary this run wrote, if any
    endpoint,               \* getChatMessages(): index of the next candidate
    probes,                 \* the message requests issued so far, with their answers
    messages,               \* processConversation(): the messages found
    result,                 \* processConversation(): the value returned
    transcript,             \* categorizeConversation(): conversationText
    category,               \* categorizeConversation(): its result
    inflight,               \* the I/O operations awaited, each done or not
    env                     \* process.env: the variables the constructor reads

vars == <<remote, cacheFile, outputFile, pc, cfg, cache, offset, requests,
          conversations, filteredConversations,
          uncachedConversations, i, k, batchResults, newChatsCount, runs,
          startFile, processed, saves, written, prev, csvFile, writtenCsv,
          endpoint, probes, messages, result, transcript, category, inflight,
          env>>

\* The locals of processConversation / getChatMessages and of
\* categorizeConversation, followed step by step in SpecProcess and
\* SpecCategorize only, and the awaited operations, followed in SpecIO only.
stepVars ==
    <<endpoint, probes, messages, result, transcript, category, inflight,
      env>>

(***************************************************************************)
(* Values                                                                  *)
(***************************************************************************)
\* JavaScript null / undefined where a string is expected.
None == "null"
\* A file that does not exist; a file that exists is <<content>>.
NoFile == <<>>
\* A null result; a result that is an object is <<object>>.
Null == <<>>
\* A missing number: meta.total, or a createdAt that is null.
NoTotal == -1
NoTime == 0
\* An object that is present but carries no name.
NoName == ""

\* getConversations: let limit = 100
Limit == 100
\* export: const batchSize = 10
BatchSize == 10

\* Bounds of the model.
MaxRemote == 230
MaxPages == 3
MaxFilterLen == 2
MaxConvs == 14
MaxRuns == 2

\* FROM_DATE as new Date(this.fromDate).getTime(), in milliseconds.
FromDates == {1000, 3000}
Departments == {"OSL", "SQUID"}

Min(a, b) == IF a <= b THEN a ELSE b

Range(s) == {s[x] : x \in DOMAIN s}

IsPrefix(s, t) == Len(s) <= Len(t) /\ SubSeq(t, 1, Len(s)) = s

(***************************************************************************)
(* Raw conversations                                                       *)
(***************************************************************************)
Conversation(id, createdAt, department, assignee, agent, status, bad) ==
    [id |-> id, createdAt |-> createdAt, department |-> department,
     assignee |-> assignee, assigned_agent |-> agent, status |-> status,
     malformed |-> bad, messages |-> Null]

\* The conversation the remote holds at position n of its list (sorted by
\* creation time, ascending): the first four differ in department and
\* assignee, the others belong to department OSL.
RemoteConversation(n, bad) ==
    CASE n = 1 -> Conversation(1, 1, "SQUID", "Squid Team", None, "open", FALSE)
      [] n = 2 -> Conversation(2, 2, None, "Squid Team", None, "open", FALSE)
      [] n = 3 -> Conversation(3, 3, None, None, None, "open", FALSE)
      [] n = 4 -> Conversation(4, 4, None, "Bob", None, "open", FALSE)
      [] OTHER -> Conversation(n, n, "OSL", None, "Bob", "open", bad /\ n = 6)

RemoteList(n, bad) == [x \in 1..n |-> RemoteConversation(x, bad)]

\* The list endpoint returning its last conversation a second time.
WithRepeat(list) == IF Len(list) = 0 THEN list ELSE Append(list, list[Len(list)])

(***************************************************************************)
(* getConversations                                                        *)
(***************************************************************************)
\* The date filter of one page (lines 166-170).
PassesFromDate(conversation, fromDate) == conversation.createdAt * 1000 >= fromDate

FilterByDate(data, fromDate) ==
    SelectSeq(data, LAMBDA c : PassesFromDate(c, fromDate))

\* The two date log lines (162-163) call toISOString on Invalid Date, which
\* throws RangeError, when the page's data array is empty.
LogDatesThrows(data) == Len(data) = 0

\* The comparison written as >=: one more page is requested when the total
\* ends exactly at the current page.
MorePagesInclusive(total, off) == total # NoTotal /\ total >= off + Limit

\* data?.meta?.total > offset + limit; a missing total compares false.
MorePages(total, off) == total # NoTotal /\ total > off + Limit

\* The page of a list that does not change during the fetch.
StaticPage(list, off) ==
    [hasData |-> TRUE,
     data |-> SubSeq(list, off + 1, Min(off + Limit, Len(list))),
     total |-> Len(list)]

\* One iteration of the while loop, given the response to its request.
FetchStep(resp) ==
    /\ pc = "fetch"
    /\ requests' = Append(requests,
                           [offset |-> offset, hasData |-> resp.hasData,
                            total |-> resp.total,
                            size |-> IF resp.hasData THEN Len(resp.data) ELSE 0])
    /\ IF resp.hasData
       THEN IF LogDatesThrows(resp.data)
            THEN /\ pc' = "failed"
                 /\ UNCHANGED <<conversations, offset>>
            ELSE /\ conversations' =
                        conversations \o FilterByDate(resp.data, cfg.fromDate)
                 /\ IF MorePages(resp.total, offset)
                    THEN offset' = offset + Limit /\ pc' = "fetch"
                    ELSE offset' = offset /\ pc' = "fetched"
       ELSE /\ pc' = "fetched"
            /\ UNCHANGED <<conversations, offset>>

FetchFrame ==
    UNCHANGED <<stepVars, csvFile, writtenCsv,
                remote, cacheFile, outputFile, cfg, cache,
                filteredConversations, uncachedConversations, i, k,
                batchResults, newChatsCount, runs, startFile, processed,
                saves, written, prev>>

\* A list request answered from the static remote list.
FetchPage == FetchStep(StaticPage(remote, offset)) /\ FetchFrame

\* A list request answered with any response.
PageTotals == {NoTotal} \cup {t * (Limit \div 2) : t \in 0..(2 * MaxPages)}
PageData == {<<>>, RemoteList(1, FALSE), RemoteList(2, FALSE)}
PageResponses ==
    [hasData : BOOLEAN, data : PageData, total : PageTotals]

FetchAnyPage == (\E resp \in PageResponses : FetchStep(resp)) /\ FetchFrame

(***************************************************************************)
(* filterConversationsByDepartment                                         *)
(***************************************************************************)
\* conversation.assignee?.name || conversation.assigned_agent?.name
NameOrNone(field) == IF field = None \/ field = NoName THEN None ELSE field

AssigneeName(c) ==
    IF NameOrNone(c.assignee) # None THEN c.assignee
    ELSE NameOrNone(c.assigned_agent)

HasAssignee(c) == c.assignee # None \/ c.assigned_agent # None

\* Lines 117-126: the backfill, which mutates the conversation in place.
Backfill(c) ==
    IF c.department = None /\ HasAssignee(c)
    THEN [c EXCEPT !.department =
              IF AssigneeName(c) = "Squid Team" THEN "SQUID" ELSE "OSL"]
    ELSE c

\* The filter without its "this.departmentFilter &&" guard.
KeepsUnguarded(c, departmentFilter) ==
    NameOrNone(c.department) = departmentFilter

\* Lines 129-133, on the conversation after the backfill.
Keeps(c, departmentFilter) ==
    ~ (departmentFilter # None /\ NameOrNone(c.department) # departmentFilter)

RECURSIVE FilterFrom(_, _, _)
FilterFrom(convs, n, departmentFilter) ==
    IF n > Len(convs) THEN <<>>
    ELSE LET c == Backfill(convs[n])
             rest == FilterFrom(convs, n + 1, departmentFilter)
         IN IF Keeps(c, departmentFilter) THEN <<c>> \o rest ELSE rest

filterConversationsByDepartment(convs, departmentFilter) ==
    FilterFrom(convs, 1, departmentFilter)

\* The input array after the call: its elements were mutated in place.
AfterBackfill(convs) == [x \in DOMAIN convs |-> Backfill(convs[x])]

(***************************************************************************)
(* Cache                                                                   *)
(***************************************************************************)
\* conversation.id.toString()
IdToString(id) == ToString(id)

\* loadCache (lines 38-62): the parsed file, or a fresh cache when the file
\* cannot be read.
FreshCache(config) ==
    [chats |-> <<>>, lastProcessedBatch |-> 0, totalBatches |-> 0,
     departmentFilter |-> config.departmentFilter]

\* What a cache file can hold besides a cache: the file cannot be read,
\* its text is not JSON, it is the JSON null, or it is a JSON object
\* without a chats array.
Unreadable == [error |-> "EACCES"]
NotJson == [text |-> "chats: ["]
JsonNull == [json |-> "null"]
JsonNoChats == [lastUpdated |-> None]

\* cache.chats is an array.
HasChats(c) == "chats" \in DOMAIN c

\* Lines 39-47 throw: readFile, JSON.parse, or cache.chats on null.
LoadThrows(file) ==
    file = NoFile \/ DOMAIN file[1] \cap {"error", "text", "json"} # {}

loadCache(file, config) ==
    IF LoadThrows(file) THEN FreshCache(config) ELSE file[1]

ChatIds(chats) == {chats[x].chatId : x \in DOMAIN chats}

\* The chats a cache file holds (none when there is no file).
FileChats(file) == IF file = NoFile THEN <<>> ELSE file[1].chats

\* chat.chatId === conversationId without toString(): a string never
\* equals a number, so nothing is ever found in the cache.
isConversationCachedNoToString(c, conversationId) == FALSE

isConversationCached(c, conversationId) ==
    \E x \in DOMAIN c.chats : c.chats[x].chatId = IdToString(conversationId)

(***************************************************************************)
(* processConversation and the formatter                                   *)
(***************************************************************************)
\* conversation.created_at || conversation.createdAt || null
CreatedAtOf(c) == IF c.createdAt = 0 THEN NoTime ELSE c.createdAt

\* conversation.assigned_agent?.name || conversation.assignee?.name || null
AssignedAgentOf(c) ==
    IF NameOrNone(c.assigned_agent) # None THEN c.assigned_agent
    ELSE NameOrNone(c.assignee)

\* The fields of the ExportedChat that formatConversationWithMessages and
\* formatConversationMetadata share (lines 326-335, 346-355).
formatConversation(c) ==
    [chatId |-> IdToString(c.id),
     createdAt |-> CreatedAtOf(c),
     status |-> c.status,
     assignedAgent |-> AssignedAgentOf(c),
     department |-> NameOrNone(c.department)]

\* The catch returning the chat's metadata instead of null.
processConversationKeepsBad(c) == <<formatConversation(c)>>

\* processConversation (lines 247-278): the chat, or null when formatting
\* the conversation throws.
processConversation(c) == IF c.malformed THEN Null ELSE <<formatConversation(c)>>

(***************************************************************************)
(* export                                                                  *)
(***************************************************************************)
\* Lines 393-396.
Uncached(filtered, c) ==
    SelectSeq(filtered, LAMBDA conv : ~ isConversationCached(c, conv.id))

\* Math.ceil(uncachedConversations.length / batchSize)
TotalBatches(n) == (n + BatchSize - 1) \div BatchSize

\* Lines 467-471: parseInt(chat.createdAt) >= fromDateTimestamp; NaN (a
\* null createdAt) compares false. FROM_DATE is a whole number of seconds.
PassesOutputDate(chat, fromDate) ==
    chat.createdAt # NoTime /\ chat.createdAt >= fromDate \div 1000

\* Lines 404-414: the output of the nothing-new path.
NothingNewOutput(c, config, found, kept) ==
    [fromDate |-> config.fromDate,
     departmentFilter |-> config.departmentFilter,
     totalConversationsFound |-> found,
     totalConversationsAfterFiltering |-> kept,
     newChatsProcessed |-> 0,
     totalExportedChats |-> Len(c.chats),
     chats |-> c.chats]

\* Lines 467-483: the output after batch processing.
BatchOutput(c, config, found, kept, new) ==
    LET filteredCachedChats ==
            SelectSeq(c.chats, LAMBDA chat : PassesOutputDate(chat, config.fromDate))
    IN [fromDate |-> config.fromDate,
        departmentFilter |-> config.departmentFilter,
        totalConversationsFound |-> found,
        totalConversationsAfterFiltering |-> kept,
        newChatsProcessed |-> new,
        totalExportedChats |-> Len(filteredCachedChats),
        chats |-> filteredCachedChats]

\* cache.chats = batchResults instead of cache.chats.push(...batchResults).
PushBatchReplacing(c, results, index, uncached) ==
    [c EXCEPT !.chats = results,
              !.lastProcessedBatch = (index \div BatchSize) + 1,
              !.totalBatches = TotalBatches(uncached)]

\* Lines 454-458: the batch results pushed onto the cache.
PushBatch(c, results, index, uncached) ==
    [c EXCEPT !.chats = c.chats \o results,
              !.lastProcessedBatch = (index \div BatchSize) + 1,
              !.totalBatches = TotalBatches(uncached)]

\* saveCache (lines 74-82): the whole cache replaces the file.
saveCache(c) == <<c>>

NoCache == FreshCache([fromDate |-> 0, departmentFilter |-> None])

NoConfig == [fromDate |-> 0, departmentFilter |-> None]

\* process.env as the constructor reads it (lines 10-11; no line reads
\* HELPCRUNCH_API_SECRET): a variable that is not set is None, one set to
\* the empty string is NoName.
Env(apiKey, apiSecret, organizationId) ==
    [HELPCRUNCH_API_KEY |-> apiKey, HELPCRUNCH_API_SECRET |-> apiSecret,
     HELPCRUNCH_ORGANIZATION_ID |-> organizationId]

\* An environment with every variable set, as validate.js sets them
\* (lines 10-12).
ExampleEnv == Env("test_key", "test_secret", "OSL")

NoRun ==
    [end |-> "none", cfg |-> NoConfig, output |-> Null, saves |-> 0,
     totalBatches |-> 0, skipped |-> FALSE, remoteChanged |-> FALSE]

Running ==
    {"fetch", "fetched", "nothingNew", "process", "save", "write", "csv"}
Ended == {"returned", "failed"}

\* main() without --clear-cache: the constructor, then export() up to the
\* cache load.
Start ==
    /\ pc = "idle"
    /\ runs < MaxRuns
    /\ \E from \in FromDates, dept \in Departments :
           /\ cfg' = [fromDate |-> from, departmentFilter |-> dept]
           /\ cache' = loadCache(cacheFile, cfg')
    /\ startFile' = cacheFile
    /\ runs' = runs + 1
    /\ pc' = "fetch"
    /\ UNCHANGED <<stepVars, csvFile, writtenCsv,
                   remote, cacheFile, outputFile, offset, requests,
                   conversations, filteredConversations,
                   uncachedConversations, i, k, batchResults, newChatsCount,
                   processed, saves, written, prev>>

\* The catch of getConversations returning what was fetched so far.
ListRequestFailsSwallowed ==
    /\ pc = "fetch"
    /\ requests' = Append(requests,
                           [offset |-> offset, hasData |-> FALSE,
                            total |-> NoTotal, size |-> 0])
    /\ pc' = "fetched"
    /\ UNCHANGED <<conversations, offset>>
    /\ FetchFrame

\* A list request that fails (network error, non-2xx): getConversations
\* rethrows, export's catch exits with status 1.
ListRequestFails ==
    /\ pc = "fetch"
    /\ requests' = Append(requests,
                           [offset |-> offset, hasData |-> FALSE,
                            total |-> NoTotal, size |-> 0])
    /\ pc' = "failed"
    /\ UNCHANGED <<conversations, offset>>
    /\ FetchFrame

\* export(), lines 380-400: from the fetched list to the first await of
\* either path.
FilterAndDiff ==
    /\ pc = "fetched"
    /\ LET filtered ==
               filterConversationsByDepartment(conversations, cfg.departmentFilter)
           uncached == Uncached(filtered, cache)
       IN IF Len(conversations) = 0
          THEN /\ pc' = "returned"
               /\ UNCHANGED <<conversations, filteredConversations,
                              uncachedConversations>>
          ELSE /\ conversations' = AfterBackfill(conversations)
               /\ filteredConversations' = filtered
               /\ IF Len(filtered) = 0
                  THEN pc' = "returned" /\ UNCHANGED uncachedConversations
                  ELSE IF ~ HasChats(cache)
                  THEN \* cache.chats.some (line 68) throws TypeError
                       pc' = "failed" /\ UNCHANGED uncachedConversations
                  ELSE /\ uncachedConversations' = uncached
                       /\ pc' = IF Len(uncached) = 0 THEN "nothingNew"
                                ELSE "process"
    /\ UNCHANGED <<stepVars, csvFile, writtenCsv,
                   remote, cacheFile, outputFile, cfg, cache, offset,
                   requests, i, k, batchResults, newChatsCount, runs,
                   startFile, processed, saves, written, prev>>

\* The nothing-new path saving the cache like the batch path.
WriteNothingNewSavingCache ==
    /\ pc = "nothingNew"
    /\ outputFile' = <<NothingNewOutput(cache, cfg, Len(conversations),
                                        Len(filteredConversations))>>
    /\ written' = outputFile'
    /\ cacheFile' = saveCache(cache)
    /\ saves' = saves + 1
    /\ pc' = "returned"
    /\ UNCHANGED <<stepVars, csvFile, writtenCsv,
                   remote, cfg, cache, offset, requests,
                   conversations, filteredConversations,
                   uncachedConversations, i, k, batchResults, newChatsCount,
                   runs, startFile, processed, prev>>

\* Lines 400-419.
WriteNothingNew ==
    /\ pc = "nothingNew"
    /\ outputFile' = <<NothingNewOutput(cache, cfg, Len(conversations),
                                        Len(filteredConversations))>>
    /\ written' = outputFile'
    /\ pc' = "returned"
    /\ UNCHANGED <<stepVars, csvFile, writtenCsv,
                   remote, cacheFile, cfg, cache, offset, requests,
                   conversations, filteredConversations,
                   uncachedConversations, i, k, batchResults, newChatsCount,
                   runs, startFile, processed, saves, prev>>

\* The for loop's step after a batch: the next batch, or the output.
NextBatch ==
    /\ i' = i + BatchSize
    /\ k' = 1
    /\ batchResults' = <<>>
    /\ pc' = IF i + BatchSize < Len(uncachedConversations) THEN "process"
             ELSE "write"

\* Lines 436-462: one conversation of the current batch; after the last
\* one of the batch its results are pushed onto the cache.
ProcessConversation ==
    /\ pc = "process"
    /\ LET batch == SubSeq(uncachedConversations, i + 1,
                           Min(i + BatchSize, Len(uncachedConversations)))
           conversation == batch[k]
           processedChat == processConversation(conversation)
           results == IF processedChat # Null
                      THEN batchResults \o processedChat
                      ELSE batchResults
       IN /\ processed' = Append(processed, conversation.id)
          /\ newChatsCount' = IF processedChat # Null THEN newChatsCount + 1
                              ELSE newChatsCount
          /\ IF k < Len(batch)
             THEN /\ k' = k + 1
                  /\ batchResults' = results
                  /\ UNCHANGED <<cache, i, pc>>
             ELSE IF Len(results) > 0
                  THEN /\ cache' = PushBatch(cache, results, i,
                                             Len(uncachedConversations))
                       /\ batchResults' = results
                       /\ pc' = "save"
                       /\ UNCHANGED <<i, k>>
                  ELSE NextBatch /\ UNCHANGED cache
    /\ UNCHANGED <<stepVars, csvFile, writtenCsv,
                   remote, cacheFile, outputFile, cfg, offset, requests,
                   conversations, filteredConversations,
                   uncachedConversations, runs, startFile, saves, written,
                   prev>>

\* Line 460: the checkpoint.
SaveCache ==
    /\ pc = "save"
    /\ cacheFile' = saveCache(cache)
    /\ saves' = saves + 1
    /\ NextBatch
    /\ UNCHANGED <<stepVars, csvFile, writtenCsv,
                   remote, outputFile, cfg, cache, offset, requests,
                   conversations, filteredConversations,
                   uncachedConversations, newChatsCount, runs, startFile,
                   processed, written, prev>>

\* saveCache without its try/catch: the error reaches export's catch.
SaveCacheFailsFatal ==
    /\ pc = "save"
    /\ pc' = "failed"
    /\ UNCHANGED <<stepVars, csvFile, writtenCsv, i, k, batchResults,
                   remote, cacheFile, outputFile, cfg, cache, offset,
                   requests, conversations, filteredConversations,
                   uncachedConversations, newChatsCount, runs, startFile,
                   processed, saves, written, prev>>

\* Lines 79-81: writeFile throws, saveCache logs the error and returns; the
\* file keeps its content and the run goes on with the cache in memory.
SaveCacheFails ==
    /\ pc = "save"
    /\ NextBatch
    /\ UNCHANGED <<stepVars, csvFile, writtenCsv,
                   remote, cacheFile, outputFile, cfg, cache, offset,
                   requests, conversations, filteredConversations,
                   uncachedConversations, newChatsCount, runs, startFile,
                   processed, saves, written, prev>>

\* Lines 465-485.
WriteOutput ==
    /\ pc = "write"
    /\ outputFile' = <<BatchOutput(cache, cfg, Len(conversations),
                                   Len(filteredConversations), newChatsCount)>>
    /\ written' = outputFile'
    /\ pc' = "csv"
    /\ UNCHANGED <<stepVars, csvFile, writtenCsv,
                   remote, cacheFile, cfg, cache, offset, requests,
                   conversations, filteredConversations,
                   uncachedConversations, i, k, batchResults, newChatsCount,
                   runs, startFile, processed, saves, prev>>

\* generateCSVSummary (lines 574-610): one row per chat of the export, in
\* order, led by the chat id.
generateCSVSummary(exportData) ==
    [x \in DOMAIN exportData.chats |-> exportData.chats[x].chatId]

\* Lines 487-491: the CSV summary of the output just written.
WriteCsv ==
    /\ pc = "csv"
    /\ csvFile' = <<generateCSVSummary(written[1])>>
    /\ writtenCsv' = csvFile'
    /\ pc' = "returned"
    /\ UNCHANGED <<stepVars, remote, cacheFile, outputFile, cfg, cache,
                   offset, requests, conversations, filteredConversations,
                   uncachedConversations, i, k, batchResults, newChatsCount,
                   runs, startFile, processed, saves, written, prev>>

\* The process is gone: nothing but the files is left of the run.
EndRun(end) ==
    /\ prev' = [end |-> end, cfg |-> cfg, output |-> written, saves |-> saves,
                totalBatches |-> TotalBatches(Len(uncachedConversations)),
                skipped |-> Len(processed) # newChatsCount,
                remoteChanged |-> FALSE]
    /\ pc' = "idle"
    /\ cfg' = NoConfig
    /\ cache' = NoCache
    /\ offset' = 0
    /\ requests' = <<>>
    /\ conversations' = <<>>
    /\ filteredConversations' = <<>>
    /\ uncachedConversations' = <<>>
    /\ i' = 0
    /\ k' = 1
    /\ batchResults' = <<>>
    /\ newChatsCount' = 0
    /\ processed' = <<>>
    /\ saves' = 0
    /\ written' = Null
    /\ writtenCsv' = Null
    /\ UNCHANGED <<stepVars, csvFile,
                   remote, cacheFile, outputFile, runs, startFile>>

\* The process is interrupted (killed, power loss) while export() runs.
Crash == pc \in Running /\ EndRun("killed")

\* export() returned, or its catch called process.exit(1).
Exit == pc \in Ended /\ EndRun(pc)

\* A --clear-cache run that unlinks nothing.
ClearCacheKeepsFile ==
    /\ pc = "idle"
    /\ runs < MaxRuns
    /\ runs' = runs + 1
    /\ prev' = [NoRun EXCEPT !.end = "cleared"]
    /\ UNCHANGED <<stepVars, csvFile, writtenCsv, cacheFile,
                   remote, outputFile, pc, cfg, cache, offset, requests,
                   conversations, filteredConversations,
                   uncachedConversations, i, k, batchResults, newChatsCount,
                   startFile, processed, saves, written>>

\* main() with --clear-cache (lines 631-635, clearCache lines 87-94).
ClearCache ==
    /\ pc = "idle"
    /\ runs < MaxRuns
    /\ cacheFile' = NoFile
    /\ runs' = runs + 1
    /\ prev' = [NoRun EXCEPT !.end = "cleared"]
    /\ UNCHANGED <<stepVars, csvFile, writtenCsv,
                   remote, outputFile, pc, cfg, cache, offset, requests,
                   conversations, filteredConversations,
                   uncachedConversations, i, k, batchResults, newChatsCount,
                   startFile, processed, saves, written>>

\* Between two runs the remote conversations change (they are closed).
RemoteChange ==
    /\ pc = "idle"
    /\ runs > 0
    /\ runs < MaxRuns
    /\ \E x \in DOMAIN remote : remote[x].status = "open"
    /\ remote' = [x \in DOMAIN remote |-> [remote[x] EXCEPT !.status = "closed"]]
    /\ prev' = [prev EXCEPT !.remoteChanged = TRUE]
    /\ UNCHANGED <<stepVars, csvFile, writtenCsv,
                   cacheFile, outputFile, pc, cfg, cache, offset, requests,
                   conversations, filteredConversations,
                   uncachedConversations, i, k, batchResults, newChatsCount,
                   runs, startFile, processed, saves, written>>

\* A cache file left by an earlier run that exported department SQUID from
\* the earliest date.
StaleCache ==
    [chats |-> <<formatConversation(RemoteConversation(1, FALSE))>>,
     lastProcessedBatch |-> 1, totalBatches |-> 1,
     departmentFilter |-> "SQUID"]

RemoteSizes == {0, 2, 5, MaxConvs}

\* The remote lists: the first n conversations, with or without the one
\* that cannot be formatted, or with a repeated item; and that conversation
\* alone.
RemoteLists ==
    {RemoteList(n, bad) : n \in RemoteSizes, bad \in BOOLEAN}
        \cup {WithRepeat(RemoteList(n, FALSE)) : n \in RemoteSizes}
        \cup {<<RemoteConversation(6, TRUE)>>}

\* Nothing is being processed or categorized.
InitSteps ==
    /\ inflight = <<>>
    /\ env = ExampleEnv
    /\ endpoint = 1
    /\ probes = <<>>
    /\ messages = <<>>
    /\ result = Null
    /\ transcript = <<>>
    /\ category = None

InitLocals ==
    /\ pc = "idle"
    /\ writtenCsv = Null
    /\ InitSteps
    /\ cfg = NoConfig
    /\ cache = NoCache
    /\ offset = 0
    /\ requests = <<>>
    /\ conversations = <<>>
    /\ filteredConversations = <<>>
    /\ uncachedConversations = <<>>
    /\ i = 0
    /\ k = 1
    /\ batchResults = <<>>
    /\ newChatsCount = 0
    /\ processed = <<>>
    /\ saves = 0
    /\ written = Null

Init ==
    /\ remote \in RemoteLists
    /\ cacheFile \in {NoFile, <<StaleCache>>}
    /\ outputFile = NoFile
    /\ csvFile = NoFile
    /\ runs = 0
    /\ startFile = cacheFile
    /\ prev = NoRun
    /\ InitLocals

Next ==
    \/ Start
    \/ FetchPage
    \/ ListRequestFails
    \/ FilterAndDiff
    \/ WriteNothingNew
    \/ ProcessConversation
    \/ SaveCache
    \/ SaveCacheFails
    \/ WriteOutput
    \/ WriteCsv
    \/ Crash
    \/ Exit
    \/ ClearCache
    \/ RemoteChange

Spec == Init /\ [][Next]_vars

(***************************************************************************)
(* Runs over any cache file                                                *)
(***************************************************************************)
CacheFiles ==
    {NoFile, <<Unreadable>>, <<NotJson>>, <<JsonNull>>, <<JsonNoChats>>,
     <<StaleCache>>}

\* Any cache file and a remote list that is not empty.
InitLoad ==
    /\ remote \in {l \in RemoteLists : Len(l) > 0}
    /\ cacheFile \in CacheFiles
    /\ outputFile = NoFile
    /\ csvFile = NoFile
    /\ runs = 0
    /\ startFile = cacheFile
    /\ prev = NoRun
    /\ InitLocals

\* Runs whose requests and cache saves succeed.
NextLoad ==
    \/ Start
    \/ FetchPage
    \/ FilterAndDiff
    \/ WriteNothingNew
    \/ ProcessConversation
    \/ SaveCache
    \/ WriteOutput
    \/ WriteCsv
    \/ Exit

SpecLoad == InitLoad /\ [][NextLoad]_vars

(***************************************************************************)
(* Runs with their awaited I/O                                             *)
(* Every await of export() and getConversations() on a request or a file   *)
(* write is three steps: the operation is issued, it completes or fails,   *)
(* and the code after the await runs. The message requests of one          *)
(* conversation are one operation here; SpecProcess follows them one by    *)
(* one.                                                                    *)
(***************************************************************************)
IOPositions == {"fetch", "nothingNew", "process", "save", "write", "csv"}

\* The operation awaited at a position of export().
OpAt(position) ==
    CASE position = "fetch" -> "GET chats"
      [] position = "process" -> "GET messages"
      [] position = "save" -> "write cache"
      [] position = "csv" -> "write csv"
      [] OTHER -> "write output"

\* Where the run is.
Here == <<runs, pc, offset, i, k>>

\* Nothing is awaited: the loops go on while their requests are pending.
AwaitedNever == TRUE

\* await: the code goes on when the operation it issued has completed.
Awaited == \A x \in DOMAIN inflight : inflight[x].done

\* The operation of the current position has been issued.
IssuedHere == Len(inflight) > 0 /\ inflight[Len(inflight)].at = Here

ioFrame ==
    <<remote, cacheFile, outputFile, pc, cfg, cache, offset, requests,
      conversations, filteredConversations, uncachedConversations, i, k,
      batchResults, newChatsCount, runs, startFile, processed, saves,
      written, prev, csvFile, writtenCsv, endpoint, probes, messages, result,
      transcript, category, env>>

\* this.api.get(...) or fs.writeFile(...) is called.
IssueIO ==
    /\ pc \in IOPositions
    /\ Awaited
    /\ ~ IssuedHere
    /\ inflight' = Append(SelectSeq(inflight, LAMBDA o : ~ o.done),
                          [op |-> OpAt(pc), at |-> Here, done |-> FALSE])
    /\ UNCHANGED ioFrame

\* The operation completes or fails.
CompleteIO ==
    /\ \E x \in DOMAIN inflight :
          /\ ~ inflight[x].done
          /\ inflight' = [inflight EXCEPT ![x].done = TRUE]
    /\ UNCHANGED ioFrame

\* The code after the await.
ResumeIO ==
    /\ IssuedHere
    /\ Awaited
    /\ \/ FetchPage
       \/ ListRequestFails
       \/ WriteNothingNew
       \/ ProcessConversation
       \/ SaveCache
       \/ SaveCacheFails
       \/ WriteOutput
       \/ WriteCsv

InitIO ==
    /\ remote \in {RemoteList(2, FALSE), RemoteList(5, FALSE),
                   RemoteList(MaxConvs, TRUE)}
    /\ cacheFile \in {NoFile, <<StaleCache>>}
    /\ outputFile = NoFile
    /\ csvFile = NoFile
    /\ runs = 0
    /\ startFile = cacheFile
    /\ prev = NoRun
    /\ InitLocals

NextIO ==
    \/ Start
    \/ IssueIO
    \/ CompleteIO
    \/ ResumeIO
    \/ FilterAndDiff
    \/ Exit

SpecIO == InitIO /\ [][NextIO]_vars

(***************************************************************************)
(* getConversations alone                                                  *)
(***************************************************************************)
InitRest ==
    /\ cacheFile = NoFile
    /\ outputFile = NoFile
    /\ csvFile = NoFile
    /\ writtenCsv = Null
    /\ InitSteps
    /\ cache = NoCache
    /\ offset = 0
    /\ requests = <<>>
    /\ filteredConversations = <<>>
    /\ uncachedConversations = <<>>
    /\ i = 0
    /\ k = 1
    /\ batchResults = <<>>
    /\ newChatsCount = 0
    /\ processed = <<>>
    /\ saves = 0
    /\ written = Null
    /\ runs = 1
    /\ startFile = NoFile
    /\ prev = NoRun

\* A remote list of 0..MaxRemote conversations that does not change.
InitFetch ==
    /\ \E n \in 0..MaxRemote : remote = RemoteList(n, FALSE)
    /\ \E from \in FromDates, dept \in Departments :
           cfg = [fromDate |-> from, departmentFilter |-> dept]
    /\ pc = "fetch"
    /\ conversations = <<>>
    /\ InitRest

SpecFetch == InitFetch /\ [][FetchPage]_vars

\* Any page responses, with totals of at most MaxPages * Limit.
InitPages ==
    /\ remote = <<>>
    /\ \E from \in FromDates :
           cfg = [fromDate |-> from, departmentFilter |-> "OSL"]
    /\ pc = "fetch"
    /\ conversations = <<>>
    /\ InitRest

SpecPages == InitPages /\ [][FetchAnyPage]_vars

(***************************************************************************)
(* filterConversationsByDepartment alone                                   *)
(***************************************************************************)
FilterShapes ==
    {Conversation(1, 1, d, a, g, "open", FALSE) :
        d \in {None, "OSL", "SQUID"},
        a \in {None, NoName, "Squid Team", "Bob"},
        g \in {None, "Squid Team"}}

RECURSIVE ListsUpTo(_)
ListsUpTo(n) ==
    IF n = 0 THEN {<<>>}
    ELSE LET shorter == ListsUpTo(n - 1)
         IN shorter \cup {Append(l, [c EXCEPT !.id = Len(l) + 1]) :
                              l \in {m \in shorter : Len(m) = n - 1},
                              c \in FilterShapes}

\* The input list is kept in remote; conversations is the array passed in.
InitFilter ==
    /\ remote \in ListsUpTo(MaxFilterLen)
    /\ \E dept \in Departments \cup {None} :
           cfg = [fromDate |-> 1000, departmentFilter |-> dept]
    /\ pc = "fetched"
    /\ conversations = remote
    /\ InitRest

ApplyFilter ==
    /\ pc = "fetched"
    /\ filteredConversations' =
           filterConversationsByDepartment(conversations, cfg.departmentFilter)
    /\ conversations' = AfterBackfill(conversations)
    /\ pc' = "filtered"
    /\ UNCHANGED <<stepVars, csvFile, writtenCsv,
                   remote, cacheFile, outputFile, cfg, cache, offset,
                   requests, uncachedConversations, i, k, batchResults,
                   newChatsCount, runs, startFile, processed, saves, written,
                   prev>>

SpecFilter == InitFilter /\ [][ApplyFilter]_vars

(***************************************************************************)
(* Messages and transcripts                                                *)
(* A string is the sequence of its characters.                             *)
(***************************************************************************)
Whitespace == {" ", "\n", "\t"}

RECURSIVE TrimStart(_)
TrimStart(str) ==
    IF Len(str) = 0 \/ str[1] \notin Whitespace THEN str
    ELSE TrimStart(Tail(str))

RECURSIVE TrimEnd(_)
TrimEnd(str) ==
    IF Len(str) = 0 \/ str[Len(str)] \notin Whitespace THEN str
    ELSE TrimEnd(SubSeq(str, 1, Len(str) - 1))

\* String.prototype.trim
Trim(str) == TrimEnd(TrimStart(str))

Hi == <<"h", "i">>
Hello == <<"h", "e", "l", "l", "o">>
Padded == <<"\n", " ", "o", "k", " ">>
Blank == <<" ">>
Empty == <<>>

\* A message of the API: an absent text, body or content is the empty
\* string, an absent or unparsable timestamp is NoTime.
Message(from, type, text, body, content, time) ==
    [from |-> from, type |-> type, text |-> text, body |-> body,
     content |-> content, created_at |-> time]

\* Line 319: message.text || message.body || message.content || ''
MessageContent(message) ==
    IF message.text # Empty THEN message.text
    ELSE IF message.body # Empty THEN message.body
    ELSE message.content

\* Every message tagged AGENT.
MessageTagAgentOnly(message) == <<"[", "A", "G", "E", "N", "T", "]">>

\* Lines 309-312: `[${messageTag}]`
MessageTag(message) ==
    IF message.from = "agent" THEN <<"[", "A", "G", "E", "N", "T", "]">>
    ELSE <<"[", "U", "S", "E", "R", "]">>

\* Lines 315-322: what one message adds to conversationText.
MessageLine(message) ==
    IF message.type = "tech" THEN Empty
    ELSE IF Trim(MessageContent(message)) = Empty THEN Empty
    ELSE MessageTag(message) \o <<" ">> \o Trim(MessageContent(message))
             \o <<"\n">>

\* Lines 299-323: the loop over the messages appends their lines in order
\* (computed by halves: concatenation is associative).
RECURSIVE MessageLines(_)
MessageLines(msgs) ==
    IF Len(msgs) = 0 THEN Empty
    ELSE IF Len(msgs) = 1 THEN MessageLine(msgs[1])
    ELSE LET half == Len(msgs) \div 2
         IN MessageLines(SubSeq(msgs, 1, half))
                \o MessageLines(SubSeq(msgs, half + 1, Len(msgs)))

\* Lines 290-292: aTime - bTime; a NaN result counts as 0.
CompareTime(a, b) ==
    IF a.created_at = NoTime \/ b.created_at = NoTime THEN 0
    ELSE a.created_at - b.created_at

\* Lines 289-293, Array.prototype.sort in place: stable for a consistent
\* comparator; the order is implementation-defined when valid and missing
\* timestamps are mixed (the comparator is then not transitive).
SortOutcomes(msgs) ==
    LET n == Len(msgs)
        timed == {x \in 1..n : msgs[x].created_at # NoTime}
    IN IF timed = {} THEN {msgs}
       ELSE IF timed = 1..n
       THEN {[x \in 1..n |-> msgs[p[x]]] :
                p \in {q \in Permutations(1..n) :
                          \A x, y \in 1..n : x < y =>
                              \/ CompareTime(msgs[q[x]], msgs[q[y]]) < 0
                              \/ /\ CompareTime(msgs[q[x]], msgs[q[y]]) = 0
                                 /\ q[x] < q[y]}}
       ELSE {[x \in 1..n |-> msgs[p[x]]] : p \in Permutations(1..n)}

\* Lines 345-360.
formatConversationMetadata(c) ==
    [chatId |-> IdToString(c.id),
     createdAt |-> CreatedAtOf(c),
     status |-> c.status,
     assignedAgent |-> AssignedAgentOf(c),
     department |-> NameOrNone(c.department),
     messageCount |-> 0,
     conversationText |-> Empty,
     hasMessages |-> FALSE]

\* The number of lines emitted instead of the number of messages.
MessageCountEmitted(msgs) ==
    Cardinality({x \in DOMAIN msgs : MessageLine(msgs[x]) # Empty})

\* Line 336: messageCount: messages.length
MessageCount(msgs) == Len(msgs)

\* The formatter without its test for an empty list.
formatConversationWithMessagesUnguarded(c, sorted) ==
    [formatConversationMetadata(c) EXCEPT
        !.messageCount = MessageCount(sorted),
        !.conversationText = Trim(MessageLines(sorted)),
        !.hasMessages = TRUE]

\* Lines 283-340, on the messages as the sort left them.
formatConversationWithMessages(c, sorted) ==
    IF Len(sorted) = 0 THEN formatConversationMetadata(c)
    ELSE [formatConversationMetadata(c) EXCEPT
             !.messageCount = MessageCount(sorted),
             !.conversationText = Trim(MessageLines(sorted)),
             !.hasMessages = TRUE]

(***************************************************************************)
(* getChatMessages and processConversation, one request at a time          *)
(***************************************************************************)
\* Line 222: slice(0, 100)
MessageLimit == 100
\* Lines 204-210: the candidate endpoints.
NumEndpoints == 5

\* A field of a response body: absent, an object, or an array.
Absent == [kind |-> "absent", items |-> <<>>]
AnObject == [kind |-> "object", items |-> <<>>]
Arr(list) == [kind |-> "array", items |-> list]

\* The outcome of one GET: the request throws (HTTP or network error), or
\* answers without a body, or answers a body with its data and messages
\* fields.
Response(error, body, data, msgs) ==
    [error |-> error, body |-> body, data |-> data, messages |-> msgs]
Failure == Response(TRUE, FALSE, Absent, Absent)
NoBody == Response(FALSE, FALSE, Absent, Absent)
Body(data, msgs) == Response(FALSE, TRUE, data, msgs)

\* x && Array.isArray(x): an empty array is truthy.
IsArray(field) == field.kind # "absent" /\ field.kind = "array"

\* The messages field looked at before the data field.
AcceptedArrayMessagesFirst(resp) ==
    IF IsArray(resp.messages) THEN resp.messages.items ELSE resp.data.items

\* Lines 219-225: the array a response is accepted for.
AcceptedArray(resp) ==
    IF IsArray(resp.data) THEN resp.data.items ELSE resp.messages.items

\* An error of one endpoint ends the whole method in its outer catch.
ProbeOutcomeNoInnerCatch(resp) ==
    IF resp.error THEN "giveUp"
    ELSE IF resp.body /\ (IsArray(resp.data) \/ IsArray(resp.messages))
    THEN "accept"
    ELSE "next"

\* Lines 213-233: what one candidate's response leads to. The inner catch
\* turns an error into the next candidate; the outer catch (238-241) is
\* the "giveUp" outcome.
ProbeOutcome(resp) ==
    IF resp.error THEN "next"
    ELSE IF resp.body /\ (IsArray(resp.data) \/ IsArray(resp.messages))
    THEN "accept"
    ELSE "next"

\* The whole array returned.
SliceAll(list) == list

\* slice(0, 100)
Slice(list) == SubSeq(list, 1, Min(Len(list), MessageLimit))

MaxMessages == 101
MaxInline == 2

OneMessage == <<Message("customer", "message", Padded, Empty, Empty, 1)>>
ExampleMessages ==
    <<Message("customer", "message", Hi, Empty, Empty, NoTime),
      Message("agent", "message", Hello, Empty, Empty, NoTime)>>
\* More messages than one call returns, no two neighbours alike.
LongList ==
    [x \in 1..MaxMessages |->
        Message(IF x % 2 = 0 THEN "agent" ELSE "customer",
                IF x % 3 = 0 THEN "tech" ELSE "message",
                IF x % 5 = 0 THEN Padded ELSE Hi,
                Empty, Empty, NoTime)]

ProbeLists == {<<>>, OneMessage, ExampleMessages, LongList}

Responses ==
    {Failure, NoBody, Body(Absent, Absent), Body(AnObject, Absent)}
        \cup {Body(Arr(l), Absent) : l \in ProbeLists}
        \cup {Body(Absent, Arr(l)) : l \in ProbeLists}
        \cup {Body(AnObject, Arr(l)) : l \in ProbeLists}
        \cup {Body(Arr(<<>>), Arr(ExampleMessages)),
              Body(Arr(OneMessage), Arr(ExampleMessages)),
              Body(Arr(ExampleMessages), Arr(<<>>)),
              Body(Arr(LongList), Arr(OneMessage))}

MessageShapes ==
    {Message(f, t, b, Empty, Empty, at) :
        f \in {"customer", "agent"}, t \in {"message", "tech"},
        b \in {Hi, Padded, Blank}, at \in {NoTime, 1, 2}}
        \cup {Message("agent", "message", Hello, Empty, Empty, NoTime),
              Message("customer", "message", Empty, Hi, Empty, NoTime),
              Message("agent", "message", Empty, Empty, Hi, NoTime),
              Message("customer", "message", Empty, Empty, Empty, NoTime)}

RECURSIVE MessageListsUpTo(_)
MessageListsUpTo(n) ==
    IF n = 0 THEN {<<>>}
    ELSE LET shorter == MessageListsUpTo(n - 1)
         IN shorter \cup {Append(l, m) :
                              l \in {t \in shorter : Len(t) = n - 1},
                              m \in MessageShapes}

\* The conversation with messages inline (the messages key of a list item).
WithMessages(c, list) == [c EXCEPT !.messages = <<list>>]

processFrame ==
    <<remote, cacheFile, outputFile, cfg, offset, requests, conversations,
      filteredConversations, uncachedConversations, i, k, newChatsCount,
      runs, startFile, saves, written, prev, csvFile, writtenCsv,
      transcript, category, inflight, env>>

\* An empty inline list taken for a missing one.
InspectConversationProbingEmpty ==
    /\ pc = "inspect"
    /\ LET conversation == uncachedConversations[i + k]
       IN IF conversation.messages # Null /\ Len(conversation.messages[1]) > 0
          THEN /\ messages' = conversation.messages[1]
               /\ pc' = "inline"
               /\ UNCHANGED endpoint
          ELSE /\ endpoint' = 1
               /\ pc' = "probe"
               /\ UNCHANGED messages
    /\ processed' = Append(processed, uncachedConversations[i + k].id)
    /\ UNCHANGED <<processFrame, probes, result, cache, batchResults>>

\* Lines 255-262: inline messages are used as they are, otherwise the
\* messages are fetched.
InspectConversation ==
    /\ pc = "inspect"
    /\ LET conversation == uncachedConversations[i + k]
       IN IF conversation.messages # Null
          THEN /\ messages' = conversation.messages[1]
               /\ pc' = "inline"
               /\ UNCHANGED endpoint
          ELSE /\ endpoint' = 1
               /\ pc' = "probe"
               /\ UNCHANGED messages
    /\ processed' = Append(processed, uncachedConversations[i + k].id)
    /\ UNCHANGED <<processFrame, probes, result, cache, batchResults>>

\* Lines 213-237: one candidate endpoint requested and its answer looked at.
Probe ==
    /\ pc = "probe"
    /\ \E resp \in Responses :
          /\ probes' = Append(probes, [endpoint |-> endpoint,
                                       response |-> resp])
          /\ CASE ProbeOutcome(resp) = "accept" ->
                    /\ messages' = Slice(AcceptedArray(resp))
                    /\ pc' = "fetched messages"
                    /\ UNCHANGED endpoint
               [] ProbeOutcome(resp) = "next" /\ endpoint < NumEndpoints ->
                    /\ endpoint' = endpoint + 1
                    /\ UNCHANGED <<messages, pc>>
               [] OTHER ->
                    /\ messages' = <<>>
                    /\ pc' = "fetched messages"
                    /\ UNCHANGED endpoint
    /\ UNCHANGED <<processFrame, processed, result, cache, batchResults>>

\* Lines 257-259 and 263-268: the chat of the conversation; the sort
\* reorders the message array in place.
FormatConversation ==
    /\ pc \in {"inline", "fetched messages"}
    /\ LET conversation == uncachedConversations[i + k]
       IN IF pc = "fetched messages" /\ Len(messages) = 0
          THEN /\ result' = <<formatConversationMetadata(conversation)>>
               /\ UNCHANGED messages
          ELSE \E sorted \in SortOutcomes(messages) :
                  /\ messages' = sorted
                  /\ result' = <<formatConversationWithMessages(conversation,
                                                               sorted)>>
    /\ pc' = "formatted"
    /\ UNCHANGED <<processFrame, processed, endpoint, probes, cache,
                   batchResults>>

\* Lines 441-458, for a batch of one conversation: the chat is pushed onto
\* the batch results and these onto the cache.
PushResult ==
    /\ pc = "formatted"
    /\ batchResults' = batchResults \o result
    /\ cache' = PushBatch(cache, batchResults', i, Len(uncachedConversations))
    /\ newChatsCount' = newChatsCount + 1
    /\ pc' = "save"
    /\ UNCHANGED <<remote, cacheFile, outputFile, cfg, offset, requests,
                   conversations, filteredConversations,
                   uncachedConversations, i, k, runs, startFile, saves,
                   written, prev, csvFile, writtenCsv, stepVars, processed>>

ProcessConfig == [fromDate |-> 1000, departmentFilter |-> "OSL"]

\* One uncached conversation of department OSL, with or without inline
\* messages, and an empty cache.
InitProcess ==
    /\ \E c \in {RemoteConversation(5, FALSE)}
                    \cup {WithMessages(RemoteConversation(5, FALSE), l) :
                             l \in MessageListsUpTo(MaxInline)} :
          /\ remote = <<c>>
          /\ conversations = <<c>>
          /\ filteredConversations = <<c>>
          /\ uncachedConversations = <<c>>
    /\ cfg = ProcessConfig
    /\ pc = "inspect"
    /\ cacheFile = NoFile
    /\ outputFile = NoFile
    /\ csvFile = NoFile
    /\ writtenCsv = Null
    /\ InitSteps
    /\ cache = loadCache(NoFile, cfg)
    /\ offset = 0
    /\ requests = <<>>
    /\ i = 0
    /\ k = 1
    /\ batchResults = <<>>
    /\ newChatsCount = 0
    /\ processed = <<>>
    /\ saves = 0
    /\ written = Null
    /\ runs = 1
    /\ startFile = NoFile
    /\ prev = NoRun

NextProcess ==
    \/ InspectConversation
    \/ Probe
    \/ FormatConversation
    \/ PushResult
    \/ SaveCache

SpecProcess == InitProcess /\ [][NextProcess]_vars

(***************************************************************************)
(* categorizeConversation                                                  *)
(***************************************************************************)
\* Lines 516-528: the categories in the order of the object literal, each
\* with its keywords.
Categories ==
    <<
      [name |-> "bridge provider",
       keywords |-> <<
        <<"b", "r", "i", "d", "g", "e">>,
        <<"a", "x", "e", "l", "a", "r">>,
        <<"w", "o", "r", "m", "h", "o", "l", "e">>,
        <<"i", "b", "c">>,
        <<"g", "r", "a", "v", "i", "t", "y", " ", "b", "r", "i", "d", "g", "e">>,
        <<"s", "t", "a", "r", "g", "a", "t", "e">>,
        <<"c", "o", "s", "m", "o", "s", " ", "h", "u", "b">>>>],
      [name |-> "cache",
       keywords |-> <<
        <<"c", "a", "c", "h", "e">>,
        <<"c", "a", "c", "h", "i", "n", "g">>,
        <<"r", "e", "f", "r", "e", "s", "h">>,
        <<"r", "e", "l", "o", "a", "d">>,
        <<"c", "l", "e", "a", "r", " ", "c", "a", "c", "h", "e">>,
        <<"b", "r", "o", "w", "s", "e", "r", " ", "c", "a", "c", "h", "e">>>>],
      [name |-> "deposit/withdrawal",
       keywords |-> <<
        <<"d", "e", "p", "o", "s", "i", "t">>,
        <<"w", "i", "t", "h", "d", "r", "a", "w", "a", "l">>,
        <<"w", "i", "t", "h", "d", "r", "a", "w">>,
        <<"d", "e", "p", "o", "s", "i", "t", " ", "f", "u", "n", "d", "s">>,
        <<"w", "i", "t", "h", "d", "r", "a", "w", " ", "f", "u", "n", "d", "s">>,
        <<"b", "i", "n", "a", "n", "c", "e">>,
        <<"c", "o", "i", "n", "b", "a", "s", "e">>,
        <<"k", "u", "c", "o", "i", "n">>,
        <<"k", "r", "a", "k", "e", "n">>>>],
      [name |-> "external team related",
       keywords |-> <<
        <<"s", "t", "a", "r", "n", "a", "m", "e">>,
        <<"s", "t", "a", "r", "g", "a", "z", "e">>,
        <<"j", "u", "n", "o">>,
        <<"a", "k", "a", "s", "h">>,
        <<"c", "o", "s", "m", "o", "s">>,
        <<"t", "e", "r", "r", "a">>,
        <<"l", "u", "n", "a">>,
        <<"s", "e", "c", "r", "e", "t">>,
        <<"k", "a", "v", "a">>,
        <<"e", "v", "m", "o", "s">>>>],
      [name |-> "fe bug",
       keywords |-> <<
        <<"b", "u", "g">>,
        <<"e", "r", "r", "o", "r">>,
        <<"b", "r", "o", "k", "e", "n">>,
        <<"n", "o", "t", " ", "w", "o", "r", "k", "i", "n", "g">>,
        <<"i", "s", "s", "u", "e">>,
        <<"p", "r", "o", "b", "l", "e", "m">>,
        <<"f", "r", "o", "n", "t", "e", "n", "d">>,
        <<"u", "i", " ", "b", "u", "g">>,
        <<"i", "n", "t", "e", "r", "f", "a", "c", "e">>>>],
      [name |-> "general inquiry",
       keywords |-> <<
        <<"h", "o", "w", " ", "t", "o">>,
        <<"w", "h", "a", "t", " ", "i", "s">>,
        <<"e", "x", "p", "l", "a", "i", "n">>,
        <<"h", "e", "l", "p">>,
        <<"q", "u", "e", "s", "t", "i", "o", "n">>,
        <<"u", "n", "d", "e", "r", "s", "t", "a", "n", "d">>,
        <<"t", "u", "t", "o", "r", "i", "a", "l">>,
        <<"g", "u", "i", "d", "e">>>>],
      [name |-> "glitch/can't reproduce",
       keywords |-> <<
        <<"g", "l", "i", "t", "c", "h">>,
        <<"w", "e", "i", "r", "d">>,
        <<"s", "t", "r", "a", "n", "g", "e">>,
        <<"c", "a", "n", "'", "t", " ", "r", "e", "p", "r", "o", "d", "u", "c", "e">>,
        <<"c", "a", "n", "n", "o", "t", " ", "r", "e", "p", "r", "o", "d", "u", "c",
          "e">>,
        <<"i", "n", "t", "e", "r", "m", "i", "t", "t", "e", "n", "t">>,
        <<"s", "o", "m", "e", "t", "i", "m", "e", "s", " ", "w", "o", "r", "k", "s">>>>],
      [name |-> "swaps",
       keywords |-> <<
        <<"s", "w", "a", "p">>,
        <<"s", "w", "a", "p", "p", "i", "n", "g">>,
        <<"t", "r", "a", "d", "e">>,
        <<"t", "r", "a", "d", "i", "n", "g">>,
        <<"e", "x", "c", "h", "a", "n", "g", "e">>,
        <<"c", "o", "n", "v", "e", "r", "t">>,
        <<"s", "l", "i", "p", "p", "a", "g", "e">>,
        <<"p", "o", "o", "l">>>>],
      [name |-> "ibc relayer",
       keywords |-> <<
        <<"r", "e", "l", "a", "y", "e", "r">>,
        <<"i", "b", "c">>,
        <<"t", "i", "m", "e", "o", "u", "t">>,
        <<"p", "e", "n", "d", "i", "n", "g">>,
        <<"s", "t", "u", "c", "k">>,
        <<"f", "a", "i", "l", "e", "d", " ", "t", "r", "a", "n", "s", "f", "e", "r">>,
        <<"c", "r", "o", "s", "s", " ", "c", "h", "a", "i", "n">>>>],
      [name |-> "unclear ux",
       keywords |-> <<
        <<"c", "o", "n", "f", "u", "s", "i", "n", "g">>,
        <<"u", "n", "c", "l", "e", "a", "r">>,
        <<"d", "i", "f", "f", "i", "c", "u", "l", "t">>,
        <<"h", "a", "r", "d", " ", "t", "o">>,
        <<"u", "x">>,
        <<"u", "s", "e", "r", " ", "e", "x", "p", "e", "r", "i", "e", "n", "c", "e">>,
        <<"d", "e", "s", "i", "g", "n">>>>],
      [name |-> "spam/marketing",
       keywords |-> <<
        <<"m", "a", "r", "k", "e", "t", "i", "n", "g">>,
        <<"s", "p", "a", "m">>,
        <<"p", "r", "o", "m", "o", "t", "i", "o", "n">>,
        <<"a", "d", "v", "e", "r", "t", "i", "s", "e", "m", "e", "n", "t">>,
        <<"a", "i", "r", "d", "r", "o", "p">>,
        <<"f", "r", "e", "e", " ", "t", "o", "k", "e", "n", "s">>>>]
    >>

\* String.prototype.toLowerCase on the letters the transcripts use.
LowerCaseChar(ch) ==
    CASE ch = "I" -> "i" [] ch = "B" -> "b" [] ch = "C" -> "c"
      [] ch = "H" -> "h" [] OTHER -> ch
toLowerCase(str) == [x \in DOMAIN str |-> LowerCaseChar(str[x])]

\* The positions where the keyword occurs in the text.
Occurrences(text, keyword) ==
    {x \in 1..(Len(text) - Len(keyword) + 1) :
        SubSeq(text, x, x + Len(keyword) - 1) = keyword}

\* Line 535: text.match(new RegExp(keyword, 'g')): the occurrences from
\* left to right, none overlapping the one before. No keyword has a
\* character that is special in a regular expression.
RECURSIVE CountFrom(_, _, _)
CountFrom(occurrences, from, length) ==
    LET later == {x \in occurrences : x >= from}
    IN IF later = {} THEN 0
       ELSE LET first == CHOOSE x \in later : \A y \in later : x <= y
            IN 1 + CountFrom(occurrences, first + length, length)

CountMatches(text, keyword) ==
    CountFrom(Occurrences(text, keyword), 1, Len(keyword))

RECURSIVE SumMatches(_, _, _)
SumMatches(text, keywords, n) ==
    IF n = 0 THEN 0
    ELSE SumMatches(text, keywords, n - 1) + CountMatches(text, keywords[n])

\* Lines 531-538: the score of the n-th category.
Score(text, n) ==
    SumMatches(text, Categories[n].keywords, Len(Categories[n].keywords))

\* Lines 531-538: the scores object, one score per category.
Scores(text) == [n \in DOMAIN Categories |-> Score(text, n)]

\* Line 541
MaxScore(scores) ==
    CHOOSE m \in Range(scores) : \A o \in Range(scores) : o <= m

DefaultCategoryOther == "other"

\* Line 543
DefaultCategory == "general inquiry"

\* The last category with the highest score.
BestCategoryLast(scores, maxScore) ==
    LET best == {n \in DOMAIN scores : scores[n] = maxScore}
    IN Categories[CHOOSE n \in best : \A o \in best : o <= n].name

\* Line 546: Object.keys(scores).find(...), the keys in insertion order.
BestCategory(scores, maxScore) ==
    LET best == {n \in DOMAIN scores : scores[n] = maxScore}
    IN Categories[CHOOSE n \in best : \A o \in best : n <= o].name

\* Lines 512-548.
categorizeConversation(conversationText) ==
    LET text == toLowerCase(conversationText)
        scores == Scores(text)
        maxScore == MaxScore(scores)
    IN IF maxScore = 0 THEN DefaultCategory
       ELSE BestCategory(scores, maxScore)

MaxWords == 3

PhraseIbc == <<"I", "B", "C">>
PhraseCosmosHub == <<"C", "o", "s", "m", "o", "s", " ", "H", "u", "b">>
PhraseClearCache == <<"c", "l", "e", "a", "r", " ", "c", "a", "c", "h", "e">>
PhraseSwapping == <<"s", "w", "a", "p", "p", "i", "n", "g">>
PhraseGreeting == <<"h", "e", "l", "l", "o">>
PhraseSpam == <<"s", "p", "a", "m">>
PhraseExchanges == <<"e", "x", "c", "h", "a", "n", "g", "e", "x", "c", "h", "a", "n", "g", "e">>
Phrases ==
    {PhraseIbc, PhraseCosmosHub, PhraseClearCache, PhraseSwapping,
     PhraseGreeting, PhraseSpam, PhraseExchanges}

\* The transcripts of up to n phrases, a space between two phrases.
RECURSIVE TranscriptsUpTo(_)
TranscriptsUpTo(n) ==
    IF n = 0 THEN {Empty}
    ELSE LET shorter == TranscriptsUpTo(n - 1)
         IN shorter \cup Phrases
                \cup {t \o <<" ">> \o w : t \in shorter \ {Empty},
                                         w \in Phrases}

InitCategorize ==
    /\ transcript \in TranscriptsUpTo(MaxWords)
    /\ category = None
    /\ inflight = <<>>
    /\ env = ExampleEnv
    /\ endpoint = 1
    /\ probes = <<>>
    /\ messages = <<>>
    /\ result = Null
    /\ pc = "categorize"
    /\ remote = <<>>
    /\ conversations = <<>>
    /\ cfg = NoConfig
    /\ cacheFile = NoFile
    /\ outputFile = NoFile
    /\ csvFile = NoFile
    /\ writtenCsv = Null
    /\ cache = NoCache
    /\ offset = 0
    /\ requests = <<>>
    /\ filteredConversations = <<>>
    /\ uncachedConversations = <<>>
    /\ i = 0
    /\ k = 1
    /\ batchResults = <<>>
    /\ newChatsCount = 0
    /\ processed = <<>>
    /\ saves = 0
    /\ written = Null
    /\ runs = 1
    /\ startFile = NoFile
    /\ prev = NoRun

\* One call of categorizeConversation on the transcript.
Categorize ==
    /\ pc = "categorize"
    /\ category' = categorizeConversation(transcript)
    /\ pc' = "categorized"
    /\ UNCHANGED <<remote, cacheFile, outputFile, cfg, cache, offset,
                   requests, conversations, filteredConversations,
                   uncachedConversations, i, k, batchResults, newChatsCount,
                   runs, startFile, processed, saves, written, prev, csvFile,
                   writtenCsv, endpoint, probes, messages, result,
                   transcript, inflight, env>>

SpecCategorize == InitCategorize /\ [][Categorize]_vars

(***************************************************************************)
(* Properties                                                              *)
(***************************************************************************)
NoDuplicates(chats) ==
    \A x, y \in DOMAIN chats : x # y => chats[x].chatId # chats[y].chatId

\* C1: Cache.chats never holds two entries with the same chatId, in memory
\* or in the cache file, also when the list endpoint returns a conversation
\* id twice within one fetch.
C1_NoDuplicateChatIds ==
    /\ NoDuplicates(cache.chats)
    /\ NoDuplicates(FileChats(cacheFile))

ProcessedIds == {IdToString(processed[x]) : x \in DOMAIN processed}

\* C2: a run calls processConversation only for filtered conversations
\* whose chatId is absent from the cache file it found at its start; in
\* particular a run that follows an interrupted one processes no chatId of
\* the cache saved before the interruption.
C2_ResumeSkipsCached ==
    /\ ProcessedIds \cap ChatIds(FileChats(startFile)) = {}
    /\ \A x \in DOMAIN processed :
           \E y \in DOMAIN filteredConversations :
               filteredConversations[y].id = processed[x]

\* A run processing conversations after the previous run, of the same
\* configuration, was killed between the save of batch 1 and batch 2.
C2_Witness ==
    /\ prev.end = "killed"
    /\ prev.saves >= 1
    /\ prev.saves < prev.totalBatches
    /\ prev.cfg = cfg
    /\ Len(processed) > 0
    /\ \E y \in DOMAIN filteredConversations :
           IdToString(filteredConversations[y].id)
               \in ChatIds(FileChats(startFile))

\* A step of main() with --clear-cache.
ClearStep == pc = "idle" /\ pc' = "idle" /\ runs' = runs + 1

\* C3: every step except a cache clear leaves the previously persisted
\* chats as a prefix of the chats in the cache file.
C3_AppendOnly ==
    [][~ ClearStep => IsPrefix(FileChats(cacheFile), FileChats(cacheFile'))]_vars

\* A save of a resumed run, on top of chats cached before the remote
\* conversations changed.
C3_Witness ==
    /\ saves >= 1
    /\ Len(FileChats(startFile)) > 0
    /\ Len(FileChats(cacheFile)) > Len(FileChats(startFile))
    /\ prev.remoteChanged
    /\ \E x \in DOMAIN FileChats(cacheFile), y \in DOMAIN remote :
           /\ FileChats(cacheFile)[x].chatId = IdToString(remote[y].id)
           /\ FileChats(cacheFile)[x].status # remote[y].status

OutputChats(out) == IF out = Null THEN {} ELSE Range(out[1].chats)

\* C4: two successive runs with the same configuration, no change of the
\* remote data and no skipped conversation write the same chats.
C4_Idempotent ==
    (/\ pc = "returned"
     /\ prev.end = "returned"
     /\ prev.cfg = cfg
     /\ ~ prev.remoteChanged
     /\ ~ prev.skipped
     /\ Len(processed) = newChatsCount)
        => /\ (written = Null) = (prev.output = Null)
           /\ OutputChats(written) = OutputChats(prev.output)

\* C5: every chat of the output a run writes was created at or after the
\* run's fromDate.
C5_OutputFromDate ==
    \A chat \in OutputChats(written) :
        chat.createdAt # NoTime /\ chat.createdAt * 1000 >= cfg.fromDate

\* C7: every chat of the output a run writes belongs to the run's
\* department.
C7_OutputDepartment ==
    \A chat \in OutputChats(written) : chat.department = cfg.departmentFilter

\* The positions of the input (after the backfill) that the filter is to
\* keep.
KeptPositions ==
    {x \in DOMAIN conversations :
        \/ cfg.departmentFilter = None
        \/ NameOrNone(conversations[x].department) = cfg.departmentFilter}

NthKept(n) ==
    CHOOSE x \in KeptPositions :
        Cardinality({y \in KeptPositions : y <= x}) = n

\* C6: filterConversationsByDepartment returns, in input order, exactly the
\* input conversations whose department after the backfill equals
\* departmentFilter, and every conversation when the filter is unset.
C6_FilterExact ==
    pc = "filtered" =>
        /\ Len(filteredConversations) = Cardinality(KeptPositions)
        /\ \A n \in DOMAIN filteredConversations :
               filteredConversations[n] = conversations[NthKept(n)]
        /\ cfg.departmentFilter = None => filteredConversations = conversations

\* The filter kept a backfilled conversation and dropped another one.
C6_Witness ==
    /\ pc = "filtered"
    /\ Len(filteredConversations) = 1
    /\ Len(conversations) = 2
    /\ \E x \in DOMAIN remote :
           /\ remote[x].department = None
           /\ conversations[x] = filteredConversations[1]

\* C8: the filter sets the department of a conversation without one to
\* SQUID when its assignee name is "Squid Team" and to OSL in every other
\* case (no assignee at all included), and leaves a conversation that has
\* a department unchanged.
C8_Backfill ==
    pc = "filtered" =>
        \A x \in DOMAIN remote :
            IF remote[x].department = None
            THEN conversations[x] =
                     [remote[x] EXCEPT !.department =
                          IF AssigneeName(remote[x]) = "Squid Team"
                          THEN "SQUID" ELSE "OSL"]
            ELSE conversations[x] = remote[x]

ExpectedRequests ==
    IF Len(remote) = 0 THEN 1 ELSE (Len(remote) + Limit - 1) \div Limit

\* C9: for a static remote list of N conversations getConversations
\* requests offsets 0, 100, 200, ... (max(1, ceil(N/100)) requests) and
\* returns exactly the conversations created at or after fromDate, once
\* each, in API order.
C9_FetchAll ==
    pc \in {"fetched", "failed"} =>
        /\ pc = "fetched"
        /\ Len(requests) = ExpectedRequests
        /\ \A x \in DOMAIN requests : requests[x].offset = (x - 1) * Limit
        /\ conversations =
               SelectSeq(remote, LAMBDA c : c.createdAt * 1000 >= cfg.fromDate)

\* C10: getConversations requests offsets 0, 100, 200, ... each once, goes
\* on only after a page with a data array whose total exceeds offset +
\* limit, and so ends within MaxPages requests when no total exceeds
\* MaxPages * Limit.
C10_PaginationStops ==
    /\ \A x \in DOMAIN requests : requests[x].offset = (x - 1) * Limit
    /\ \A x \in DOMAIN requests :
           (x < Len(requests) \/ pc = "fetch") =>
               /\ requests[x].hasData
               /\ requests[x].total # NoTotal
               /\ requests[x].total > requests[x].offset + Limit
    /\ Len(requests) <= MaxPages
    /\ pc = "fetch" => Len(requests) < MaxPages
    /\ pc \in {"fetch", "fetched", "failed"}

\* The loop ended at a second page whose total is missing or smaller than
\* the total of the first page.
C10_Witness ==
    /\ pc = "fetched"
    /\ Len(requests) = 2
    /\ requests[2].total < requests[1].total

\* The order of the steps of a run, as pairs of successive positions: a
\* run ends from an output write, from a failure or by being killed.
RunOrder ==
    {<<"idle", "idle">>, <<"idle", "fetch">>,
     <<"fetch", "fetch">>, <<"fetch", "fetched">>, <<"fetch", "failed">>,
     <<"fetched", "nothingNew">>, <<"fetched", "process">>,
     <<"nothingNew", "returned">>,
     <<"process", "process">>, <<"process", "save">>, <<"process", "write">>,
     <<"save", "process">>, <<"save", "write">>,
     <<"write", "csv">>, <<"csv", "returned">>,
     <<"returned", "idle">>, <<"failed", "idle">>}
        \cup {<<p, "idle">> : p \in Running}

\* C19: a run loads the cache, then issues its list requests, then filters
\* and partitions, then takes exactly one of the nothing-new and the batch
\* path, then writes its outputs; list requests are issued only while
\* fetching, message requests only while processing batches, cache saves
\* only at the checkpoints between batches and output writes only at the
\* end, so none of them precedes the end of the list fetch and no cache
\* save follows the output write.
C19_StepOrder ==
    [][/\ <<pc, pc'>> \in RunOrder
       /\ (pc' # "idle" /\ requests' # requests) => pc = "fetch"
       /\ (pc' # "idle" /\ processed' # processed) =>
              pc = "process" /\ pc' \in {"process", "save", "write"}
       /\ (cacheFile' # cacheFile /\ ~ ClearStep) =>
              pc = "save" /\ written = Null
       /\ outputFile' # outputFile =>
              pc \in {"nothingNew", "write"} /\ pc' \in {"returned", "csv"}
       /\ csvFile' # csvFile => pc = "csv" /\ pc' = "returned"
       /\ (pc = "nothingNew" \/ pc' = "nothingNew") =>
              Len(processed') = 0 /\ saves' = 0]_vars

\* C20: a run that ends without failing has written the JSON export and
\* the CSV summary, whichever path it took and also when the fetch or the
\* department filter left no conversation.
C20_AlwaysWritesBoth ==
    pc = "returned" => written # Null /\ writtenCsv # Null

\* The candidate answered without error, with nothing but empty arrays
\* under data and messages.
OnlyEmptyArrays(resp) ==
    /\ ~ resp.error /\ resp.body
    /\ resp.data.kind = "array" \/ resp.messages.kind = "array"
    /\ resp.data.kind = "array" => Len(resp.data.items) = 0
    /\ resp.messages.kind = "array" => Len(resp.messages.items) = 0

\* C11: getChatMessages accepts only a non-empty message array: after a
\* candidate that answered successfully with an empty array, the next
\* candidate is still requested (unless it was the last one).
C11_EmptyArrayNotAccepted ==
    pc # "probe" =>
        \A x \in DOMAIN probes :
            x < NumEndpoints /\ OnlyEmptyArrays(probes[x].response)
                => Len(probes) > x

\* The candidate answered without error and with an array under data or
\* under messages.
CarriesArray(resp) ==
    /\ ~ resp.error /\ resp.body
    /\ resp.data.kind = "array" \/ resp.messages.kind = "array"

\* C12: the candidates are requested in list order, one at a time, the
\* next one only after the current one failed or carried no message array,
\* none after an accepted one; the result is the first (at most 100)
\* entries of the accepted array in their order, the data key preferred
\* over the messages key.
C12_ProbeOrder ==
    /\ Len(probes) <= NumEndpoints
    /\ \A x \in DOMAIN probes : probes[x].endpoint = x
    /\ \A x \in DOMAIN probes :
           x < Len(probes) => ~ CarriesArray(probes[x].response)
    /\ pc = "probe" =>
           /\ endpoint = Len(probes) + 1
           /\ \A x \in DOMAIN probes : ~ CarriesArray(probes[x].response)
    /\ (pc = "fetched messages" /\ CarriesArray(probes[Len(probes)].response))
           => LET last == probes[Len(probes)].response
                  array == IF last.data.kind = "array" THEN last.data.items
                           ELSE last.messages.items
              IN /\ Len(messages) = Min(Len(array), MessageLimit)
                 /\ \A x \in DOMAIN messages : messages[x] = array[x]

\* The third candidate answered more than 100 messages under data and
\* another array under messages, after two candidates without an array.
C12_Witness ==
    /\ pc = "fetched messages"
    /\ Len(probes) = 3
    /\ probes[3].response = Body(Arr(LongList), Arr(OneMessage))
    /\ Len(messages) = MessageLimit

\* The candidate failed: the request threw, or the answer had no array.
FailedCandidate(resp) ==
    \/ resp.error
    \/ ~ resp.body
    \/ resp.data.kind # "array" /\ resp.messages.kind # "array"

\* C13: getChatMessages never raises: a failing candidate leads to the
\* next candidate, and when all five have failed the result is the empty
\* sequence, the conversation still yields a chat and the run does not
\* fail.
C13_NeverRaises ==
    /\ pc # "failed"
    /\ \A x \in DOMAIN probes :
           x < NumEndpoints /\ FailedCandidate(probes[x].response) =>
               \/ Len(probes) > x
               \/ pc = "probe" /\ endpoint = x + 1
    /\ (/\ pc \notin {"inspect", "probe"}
        /\ Len(probes) = NumEndpoints
        /\ \A x \in DOMAIN probes : FailedCandidate(probes[x].response))
           => messages = <<>>
    /\ pc \in {"formatted", "save", "write"} => result # Null

\* All five candidates failed, two of them by an error, and the chat went
\* into the saved cache.
C13_Witness ==
    /\ pc = "write"
    /\ Len(probes) = NumEndpoints
    /\ \A x \in DOMAIN probes : FailedCandidate(probes[x].response)
    /\ probes[1].response = Failure
    /\ probes[NumEndpoints].response = Failure
    /\ \E x \in DOMAIN probes : ~ probes[x].response.error
    /\ result # Null
    /\ FileChats(cacheFile) = result

\* The chat processConversation returned.
Chat == result[1]
Formatted == pc \in {"formatted", "save", "write"}

\* The lines of a text are the pieces between its newline characters,
\* whose positions are given in ascending order.
Newlines(text) ==
    SelectSeq([x \in 1..Len(text) |-> x], LAMBDA x : text[x] = "\n")
NumLines(text) == IF text = Empty THEN 0 ELSE Len(Newlines(text)) + 1
TextLine(text, ends, n) ==
    SubSeq(text, IF n = 1 THEN 1 ELSE ends[n - 1] + 1,
           IF n = Len(ends) + 1 THEN Len(text) ELSE ends[n] - 1)

\* The messages that have a body to show, in the order of the list.
Shown(msgs) ==
    SelectSeq(msgs, LAMBDA m : m.type # "tech"
                               /\ Trim(MessageContent(m)) # Empty)

C15_EmptyIsMetadataOnly ==
    /\ (Formatted /\ Len(messages) = 0) =>
           /\ result # Null
           /\ Chat.messageCount = 0
           /\ Chat.conversationText = Empty
           /\ Chat.hasMessages = FALSE
    /\ (pc \in {"save", "write"} /\ Len(messages) = 0) =>
           /\ Len(cache.chats) = 1
           /\ cache.chats[1] = Chat
    /\ (pc = "write" /\ Len(messages) = 0) => FileChats(cacheFile) = <<Chat>>

\* The conversation came with an empty inline list and its chat is in the
\* cache file.
C15_Witness ==
    /\ pc = "write"
    /\ uncachedConversations[1].messages = <<<<>>>>
    /\ FileChats(cacheFile) = <<Chat>>
    /\ ~ Chat.hasMessages

\* C16: for a non-empty message list messageCount is the length of the
\* whole list, conversationText has one line for exactly the messages that
\* are not of type "tech" and have a non-empty trimmed body, so
\* messageCount is at least the number of lines, and hasMessages is true
\* even when conversationText is empty.
C16_CountsWholeList ==
    (Formatted /\ Len(messages) > 0) =>
        /\ Chat.messageCount = Len(messages)
        /\ Chat.hasMessages = TRUE
        /\ NumLines(Chat.conversationText) =
               Cardinality({x \in DOMAIN messages :
                               /\ messages[x].type # "tech"
                               /\ Trim(MessageContent(messages[x])) # Empty})
        /\ Chat.messageCount >= NumLines(Chat.conversationText)

\* Two messages, a technical one and one with a blank body: no line at
\* all, but the chat counts both and has messages.
C16_Witness ==
    /\ Formatted
    /\ Len(messages) = 2
    /\ \E x \in DOMAIN messages : messages[x].type = "tech"
    /\ \E x \in DOMAIN messages :
           messages[x].type # "tech" /\ messages[x].text = Blank
    /\ Chat.conversationText = Empty
    /\ Chat.hasMessages
    /\ Chat.messageCount = 2

CategoryNames ==
    {"bridge provider", "cache", "deposit/withdrawal",
     "external team related", "fe bug", "general inquiry",
     "glitch/can't reproduce", "swaps", "ibc relayer", "unclear ux",
     "spam/marketing"}

CategoryIndex(name) == CHOOSE n \in DOMAIN Categories : Categories[n].name = name

\* C18: the label is the category whose summed keyword-match count over
\* the lower-cased transcript is maximal, the first one in definition
\* order among several with the maximum, and "general inquiry" when every
\* category scores zero.
C18_MaxScoreFirstWins ==
    pc = "categorized" =>
        LET text == toLowerCase(transcript)
            chosen == Score(text, CategoryIndex(category))
            zero == \A n \in DOMAIN Categories : Score(text, n) = 0
        IN /\ zero => category = "general inquiry"
           /\ ~ zero =>
                 /\ \A n \in DOMAIN Categories : Score(text, n) <= chosen
                 /\ \A n \in 1..(CategoryIndex(category) - 1) :
                        Score(text, n) < chosen

\* Two categories share a positive maximum and the earlier one is the
\* label.
C18_Witness ==
    /\ pc = "categorized"
    /\ \E n \in DOMAIN Categories :
          /\ Categories[n].name # category
          /\ Score(toLowerCase(transcript), n) > 0
          /\ Score(toLowerCase(transcript), n)
                 = Score(toLowerCase(transcript), CategoryIndex(category))
          /\ n > CategoryIndex(category)

\* The step ends a batch: the for loop moves on by batchSize.
BatchEnds == pc \in {"process", "save"} /\ i' = i + BatchSize
\* The step is a cache save that failed.
SaveFailed == pc = "save" /\ i' = i + BatchSize /\ saves' = saves
\* No save of this run has failed so far: the file is the cache as it was
\* loaded or as it was last pushed to.
NoSaveFailedYet ==
    cache = loadCache(cacheFile, cfg) \/ cacheFile = saveCache(cache)

\* C21: after every batch b of a run (cache writes succeeding), also one
\* whose conversations were all skipped, the cache file holds the non-null
\* results of batches 1..b and records lastProcessedBatch = b and
\* totalBatches = ceil(U/10), U the number of uncached conversations.
C21_CheckpointAfterEveryBatch ==
    [][(BatchEnds /\ NoSaveFailedYet /\ ~ SaveFailed) =>
          /\ cacheFile' # NoFile
          /\ cacheFile'[1].lastProcessedBatch = i' \div BatchSize
          /\ cacheFile'[1].totalBatches =
                 TotalBatches(Len(uncachedConversations))
          /\ \A x \in DOMAIN processed' :
                 ~ uncachedConversations[x].malformed =>
                     IdToString(processed'[x])
                         \in ChatIds(FileChats(cacheFile'))]_vars

\* The step issues a list request that fails; under Spec every answered
\* list request carries a data array.
ListRequestFailed ==
    /\ requests' # requests
    /\ Len(requests') > 0
    /\ ~ requests'[Len(requests')].hasData

SkippedIds ==
    {IdToString(processed[x]) :
        x \in {y \in DOMAIN processed : uncachedConversations[y].malformed}}

\* C23: a conversation whose processing raised an error or gave null adds
\* no entry to the cache or the output, the other uncached conversations
\* of the run are still processed, the run does not fail, and the next run
\* processes the conversation again.
C23_SkipAndContinue ==
    /\ SkippedIds \cap ChatIds(cache.chats) = {}
    /\ SkippedIds \cap ChatIds(FileChats(cacheFile)) = {}
    /\ written # Null => SkippedIds \cap ChatIds(written[1].chats) = {}
    /\ pc \in {"write", "csv"} =>
           Len(processed) = Len(uncachedConversations)
    /\ pc = "failed" => Len(processed) = 0
    /\ (/\ prev.end = "returned" /\ prev.skipped
        /\ prev.cfg.departmentFilter = cfg.departmentFilter
        /\ pc \in {"nothingNew", "process", "save", "write", "csv"})
           => /\ pc # "nothingNew"
              /\ \E x \in DOMAIN uncachedConversations :
                     uncachedConversations[x].malformed
    /\ (/\ prev.end = "returned" /\ prev.skipped
        /\ prev.cfg.departmentFilter = cfg.departmentFilter
        /\ pc \in {"write", "csv"})
           => SkippedIds # {}

\* The run after one that skipped a conversation has gone through its
\* batches and skipped the conversation again, with others exported.
C23_Witness ==
    /\ prev.end = "returned" /\ prev.skipped
    /\ pc = "csv"
    /\ SkippedIds # {}
    /\ Len(written[1].chats) > 1

\* The file holds a cache.
WellFormed(file) == file # NoFile /\ DOMAIN file[1] = DOMAIN StaleCache

\* C24: with a cache file that is missing, unreadable, not JSON, or JSON
\* that is not a well-formed cache, the run goes on as with no cache file:
\* from a fresh empty cache, every filtered conversation uncached, and
\* without failing.
C24_BadCacheIsNoCache ==
    (pc # "idle" /\ ~ WellFormed(startFile)) =>
        /\ pc = "fetch" => cache = FreshCache(cfg)
        /\ pc # "failed"
        /\ pc \in {"process", "save", "write", "csv"} =>
               uncachedConversations = filteredConversations

\* The step is a cache save that did not write the file.
SaveAttemptFailed == pc = "save" /\ pc' # "idle" /\ saves' = saves

\* The chat ids of the conversations processed so far with a result.
ResultIds ==
    {IdToString(processed[x]) :
        x \in {y \in DOMAIN processed : ~ uncachedConversations[y].malformed}}

\* C25: a failed cache save does not fail the run: the in-memory cache
\* keeps the batch's chats, the remaining batches are processed, later
\* saves are still attempted, and the final output contains the chats of
\* the batch whose save failed.
C25_SaveFailureNotFatal ==
    [][/\ SaveAttemptFailed =>
              /\ pc' \in {"process", "write"}
              /\ cache' = cache
              /\ Range(batchResults) \subseteq Range(cache'.chats)
              /\ pc' = "process" <=> i' < Len(uncachedConversations)
       /\ (pc = "process" /\ pc' \notin {"process", "idle"}) =>
              \/ pc' = "save"
              \/ pc' = "write" /\ Len(batchResults') = 0
       /\ (pc = "write" /\ pc' = "csv") =>
              /\ Len(processed) = Len(uncachedConversations)
              /\ ResultIds \subseteq ChatIds(cache.chats)
              /\ ResultIds \subseteq ChatIds(written'[1].chats)]_vars

\* The save after the first batch failed, the save after the second one
\* succeeded, and the output holds the chats of both batches.
C25_Witness ==
    /\ pc = "csv"
    /\ saves = 1
    /\ cache.lastProcessedBatch = 2
    /\ Len(cache.chats) > BatchSize
    /\ Len(written[1].chats) = Len(cache.chats)
    /\ cacheFile = saveCache(cache)

\* C26: on the nothing-new path no message is requested and the cache
\* file is not written: the cache file after the run is the cache file
\* before the run.
C26_NothingNewLeavesCache ==
    [][/\ pc' = "nothingNew" =>
              /\ Len(processed') = 0
              /\ saves' = 0
              /\ cacheFile' = startFile'
       /\ pc = "nothingNew" =>
              /\ pc' \in {"returned", "idle"}
              /\ cacheFile' = cacheFile
              /\ processed' = processed
              /\ saves' = saves
       /\ (pc = "returned" /\ written # Null /\ writtenCsv = Null) =>
              /\ cacheFile = startFile
              /\ cacheFile' = startFile
              /\ Len(processed) = 0
              /\ saves = 0]_vars

\* A nothing-new run over an existing cache file has written its output.
C26_Witness ==
    /\ pc = "returned"
    /\ Len(filteredConversations) > 0
    /\ Len(uncachedConversations) = 0
    /\ written # Null
    /\ cacheFile = startFile
    /\ cacheFile # NoFile

\* The operations issued and neither completed nor failed.
Outstanding == {x \in DOMAIN inflight : ~ inflight[x].done}

\* C27: at every point of a run at most one I/O operation (HTTP request,
\* cache write, output write) is outstanding, and an operation is issued
\* only when the one before it has completed or failed.
C27_OneOperationAtATime ==
    [][/\ Cardinality(Outstanding') <= 1
       /\ Cardinality(Outstanding') > Cardinality(Outstanding) =>
              Outstanding = {}
       /\ (Len(inflight') > 0 /\ inflight' # inflight
           /\ ~ inflight'[Len(inflight')].done) =>
              \A x \in DOMAIN inflight : inflight[x].done]_vars

\* The second message request of a batch is outstanding, the first one
\* having completed.
C27_Witness ==
    /\ pc = "process"
    /\ k = 2
    /\ Len(processed) = 1
    /\ Cardinality(Outstanding) = 1
    /\ inflight[Len(inflight)].op = "GET messages"

UserTag == <<"[", "U", "S", "E", "R", "]">>
AgentTag == <<"[", "A", "G", "E", "N", "T", "]">>

\* Lines 604-605: substring(0, 100); line 584: substring(0, 200).
MessageChars == 100
SummaryChars == 200

\* String.prototype.startsWith
StartsWith(str, prefix) ==
    Len(str) >= Len(prefix) /\ SubSeq(str, 1, Len(prefix)) = prefix

\* String.prototype.substring(0, n)
Substring(str, n) == SubSeq(str, 1, IF Len(str) < n THEN Len(str) ELSE n)

\* String.prototype.replace with a string pattern: the first occurrence
\* only, and the string itself when there is none.
ReplaceFirst(str, pattern, replacement) ==
    LET found == Occurrences(str, pattern)
    IN IF found = {} THEN str
       ELSE LET at == CHOOSE x \in found : \A o \in found : x <= o
            IN SubSeq(str, 1, at - 1) \o replacement
                   \o SubSeq(str, at + Len(pattern), Len(str))

\* Line 584: replace(/\[USER\]|\[AGENT\]/g, '')
RECURSIVE RemoveTags(_)
RemoveTags(str) ==
    IF Len(str) = 0 THEN str
    ELSE IF StartsWith(str, UserTag)
         THEN RemoveTags(SubSeq(str, Len(UserTag) + 1, Len(str)))
    ELSE IF StartsWith(str, AgentTag)
         THEN RemoveTags(SubSeq(str, Len(AgentTag) + 1, Len(str)))
    ELSE <<Head(str)>> \o RemoveTags(Tail(str))

\* Line 575: split('\n')
Split(text) ==
    LET ends == SelectSeq([x \in 1..Len(text) |-> x],
                          LAMBDA x : text[x] = "\n")
    IN [n \in 1..(Len(ends) + 1) |->
            SubSeq(text, IF n = 1 THEN 1 ELSE ends[n - 1] + 1,
                   IF n = Len(ends) + 1 THEN Len(text) ELSE ends[n] - 1)]

\* Line 575: the lines that are not blank.
CsvMessages(chat) ==
    SelectSeq(Split(chat.conversationText), LAMBDA msg : Trim(msg) # Empty)

\* Line 578.
FirstUserMessage(msgs) ==
    LET user == SelectSeq(msgs, LAMBDA msg : StartsWith(msg, UserTag))
    IN IF Len(user) = 0 THEN Empty
       ELSE Trim(ReplaceFirst(user[1], UserTag, Empty))

\* Lines 579-581.
LastAgentResponse(msgs) ==
    LET agentMessages == SelectSeq(msgs, LAMBDA msg : StartsWith(msg, AgentTag))
    IN IF Len(agentMessages) > 0
       THEN Trim(ReplaceFirst(agentMessages[Len(agentMessages)], AgentTag, Empty))
       ELSE Empty

\* Line 584.
Summary(chat) == Substring(Trim(RemoveTags(chat.conversationText)), SummaryChars)

\* The quotes of the value left as they are.
EscapeQuotesNone(str) == str

\* replace(/"/g, '""')
RECURSIVE EscapeQuotes(_)
EscapeQuotes(str) ==
    IF Len(str) = 0 THEN str
    ELSE (IF Head(str) = "\"" THEN <<"\"", "\"">> ELSE <<Head(str)>>)
             \o EscapeQuotes(Tail(str))

\* value || '' for a value that is null or a string
OrEmpty(value) == IF value = Null THEN Empty ELSE value[1]

\* `"${...replace(/"/g, '""')}"`
QuotedField(str) == <<"\"">> \o EscapeQuotes(str) \o <<"\"">>

\* The decimal digits of a natural number (a number in a template or join).
Digit(n) ==
    CASE n = 0 -> "0" [] n = 1 -> "1" [] n = 2 -> "2" [] n = 3 -> "3"
      [] n = 4 -> "4" [] n = 5 -> "5" [] n = 6 -> "6" [] n = 7 -> "7"
      [] n = 8 -> "8" [] n = 9 -> "9"
RECURSIVE Digits(_)
Digits(n) == IF n < 10 THEN <<Digit(n)>> ELSE Digits(n \div 10) \o <<Digit(n % 10)>>

\* Line 596: the date part of the ISO timestamp, for the unix times of
\* January 1970.
SecondsPerDay == 86400
DateOnly(createdAt) ==
    LET day == (createdAt \div SecondsPerDay) + 1
    IN <<"1", "9", "7", "0", "-", "0", "1", "-">>
           \o (IF day < 10 THEN <<"0">> ELSE Empty) \o Digits(day)

\* The category's name, character by character.
CategoryText(name) ==
    CASE name = "bridge provider" ->
             <<"b", "r", "i", "d", "g", "e", " ", "p", "r", "o", "v", "i", "d", "e", "r">>
      [] name = "cache" ->
             <<"c", "a", "c", "h", "e">>
      [] name = "deposit/withdrawal" ->
             <<"d", "e", "p", "o", "s", "i", "t", "/", "w", "i", "t", "h", "d", "r", "a", "w", "a", "l">>
      [] name = "external team related" ->
             <<"e", "x", "t", "e", "r", "n", "a", "l", " ", "t", "e", "a", "m", " ", "r", "e", "l", "a", "t", "e", "d">>
      [] name = "fe bug" ->
             <<"f", "e", " ", "b", "u", "g">>
      [] name = "general inquiry" ->
             <<"g", "e", "n", "e", "r", "a", "l", " ", "i", "n", "q", "u", "i", "r", "y">>
      [] name = "glitch/can't reproduce" ->
             <<"g", "l", "i", "t", "c", "h", "/", "c", "a", "n", "'", "t", " ", "r", "e", "p", "r", "o", "d", "u", "c", "e">>
      [] name = "swaps" ->
             <<"s", "w", "a", "p", "s">>
      [] name = "ibc relayer" ->
             <<"i", "b", "c", " ", "r", "e", "l", "a", "y", "e", "r">>
      [] name = "unclear ux" ->
             <<"u", "n", "c", "l", "e", "a", "r", " ", "u", "x">>
      [] name = "spam/marketing" ->
             <<"s", "p", "a", "m", "/", "m", "a", "r", "k", "e", "t", "i", "n", "g">>

\* Array.prototype.join(',')
RECURSIVE Join(_)
Join(fields) ==
    IF Len(fields) = 0 THEN Empty
    ELSE IF Len(fields) = 1 THEN fields[1]
    ELSE fields[1] \o <<",">> \o Join(Tail(fields))

\* Lines 594-607: const row
csvFields(chat) ==
    LET msgs == CsvMessages(chat)
    IN <<chat.chatId,
         DateOnly(chat.createdAt),
         chat.status,
         QuotedField(OrEmpty(chat.customerName)),
         QuotedField(OrEmpty(chat.customerEmail)),
         QuotedField(OrEmpty(chat.assignedAgent)),
         chat.department,
         Digits(chat.messageCount),
         CategoryText(categorizeConversation(chat.conversationText)),
         QuotedField(Substring(FirstUserMessage(msgs), MessageChars)),
         QuotedField(Substring(LastAgentResponse(msgs), MessageChars)),
         QuotedField(Summary(chat))>>

\* Line 609: row.join(',')
csvRow(chat) == Join(csvFields(chat))

\* Lines 558-571: the header row.
CsvHeader ==
    Join(<<
        <<"C", "h", "a", "t", " ", "I", "D">>,
        <<"C", "r", "e", "a", "t", "e", "d", " ", "D", "a", "t", "e">>,
        <<"S", "t", "a", "t", "u", "s">>,
        <<"C", "u", "s", "t", "o", "m", "e", "r", " ", "N", "a", "m", "e">>,
        <<"C", "u", "s", "t", "o", "m", "e", "r", " ", "E", "m", "a", "i", "l">>,
        <<"A", "s", "s", "i", "g", "n", "e", "d", " ", "A", "g", "e", "n", "t">>,
        <<"D", "e", "p", "a", "r", "t", "m", "e", "n", "t">>,
        <<"M", "e", "s", "s", "a", "g", "e", " ", "C", "o", "u", "n", "t">>,
        <<"C", "a", "t", "e", "g", "o", "r", "y">>,
        <<"F", "i", "r", "s", "t", " ", "U", "s", "e", "r", " ", "M", "e", "s", "s", "a", "g", "e">>,
        <<"L", "a", "s", "t", " ", "A", "g", "e", "n", "t", " ", "R", "e", "s", "p", "o", "n", "s", "e">>,
        <<"C", "o", "n", "v", "e", "r", "s", "a", "t", "i", "o", "n", " ", "S", "u", "m", "m", "a", "r", "y">>>>)

\* Lines 554-613, csvRows before the final join('\n'): the header and one
\* row per chat.
csvRows(exportData) ==
    <<CsvHeader>> \o [x \in DOMAIN exportData.chats |-> csvRow(exportData.chats[x])]

\* Line 489: this.outputFile.replace('.json', '_summary.csv')
csvFileName(outputPath) ==
    ReplaceFirst(outputPath, <<".", "j", "s", "o", "n">>,
                 <<"_", "s", "u", "m", "m", "a", "r", "y", ".", "c", "s", "v">>)

(***************************************************************************)
(* The two output writes, on a chat and an output path given as text       *)
(***************************************************************************)
MaxFieldLen == 2

FieldChars == {"a", "\"", ","}

RECURSIVE FieldTexts(_)
FieldTexts(n) ==
    IF n = 0 THEN {Empty}
    ELSE LET shorter == FieldTexts(n - 1)
         IN shorter \cup {t \o <<c>> : t \in shorter, c \in FieldChars}

\* customer?.name || null and the like: null, or a string that is not empty.
FieldValues(n) == {Null} \cup {<<t>> : t \in FieldTexts(n) \ {Empty}}

CsvTranscripts ==
    {Empty,
     UserTag \o <<" ", "h", "i">>,
     UserTag \o <<" ", "a", "\"", "b", "\n">> \o AgentTag \o <<" ", "o", "k">>}

CsvChat(name, email, agent, text) ==
    [chatId |-> <<"7">>,
     createdAt |-> SecondsPerDay,
     status |-> <<"o", "p", "e", "n">>,
     customerName |-> name,
     customerEmail |-> email,
     assignedAgent |-> agent,
     department |-> <<"O", "S", "L">>,
     messageCount |-> Len(SelectSeq(text, LAMBDA ch : ch = "[")),
     conversationText |-> text]

CsvChats ==
    {CsvChat(name, email, agent, text) :
        name \in FieldValues(MaxFieldLen), email \in FieldValues(1),
        agent \in FieldValues(1), text \in CsvTranscripts}

ExportJson == <<"e", ".", "j", "s", "o", "n">>
OutputPaths ==
    {ExportJson,
     <<"e", ".", "t", "x", "t">>,
     <<"e">>,
     <<"e", ".", "J", "S", "O", "N">>,
     <<"e", ".", "j", "s", "o", "n", ".", "b", "a", "k">>}

OutputConfig(path) == [outputFile |-> path, fromDate |-> 0]

\* export() has reached its output step with one chat in the cache.
InitOutputs ==
    /\ \E chat \in CsvChats, path \in OutputPaths :
          /\ chat = CsvChat(Null, Null, Null, Empty) \/ path = ExportJson
          /\ cache = [chats |-> <<chat>>]
          /\ cfg = OutputConfig(path)
    /\ pc = "write"
    /\ outputFile = NoFile
    /\ csvFile = NoFile
    /\ written = Null
    /\ writtenCsv = Null
    /\ InitSteps
    /\ remote = <<>>
    /\ conversations = <<>>
    /\ cacheFile = NoFile
    /\ offset = 0
    /\ requests = <<>>
    /\ filteredConversations = <<>>
    /\ uncachedConversations = <<>>
    /\ i = 0
    /\ k = 1
    /\ batchResults = <<>>
    /\ newChatsCount = 0
    /\ processed = <<>>
    /\ saves = 0
    /\ runs = 1
    /\ startFile = NoFile
    /\ prev = NoRun

outputsFrame ==
    <<stepVars, remote, cacheFile, cfg, cache, offset, requests,
      conversations, filteredConversations, uncachedConversations, i, k,
      batchResults, newChatsCount, runs, startFile, processed, saves, prev>>

\* Lines 465-485: the date filter and the write of the primary output file.
WriteOutputAtPath ==
    /\ pc = "write"
    /\ LET filteredCachedChats ==
               SelectSeq(cache.chats,
                         LAMBDA chat : chat.createdAt >= cfg.fromDate)
       IN /\ written' = <<[chats |-> filteredCachedChats]>>
          /\ outputFile' = <<[chats |-> filteredCachedChats]>>
    /\ pc' = "csv"
    /\ UNCHANGED <<outputsFrame, csvFile, writtenCsv>>

\* Lines 487-490: the CSV summary is written to csvFileName, which is the
\* primary output file when the two paths are the same.
WriteCsvAtPath ==
    /\ pc = "csv"
    /\ LET csvContent == [rows |-> csvRows(written[1])]
       IN /\ writtenCsv' = <<csvContent>>
          /\ csvFile' = <<csvContent>>
          /\ outputFile' = IF csvFileName(cfg.outputFile) = cfg.outputFile
                           THEN <<csvContent>>
                           ELSE outputFile
    /\ pc' = "returned"
    /\ UNCHANGED <<outputsFrame, written>>

NextOutputs == WriteOutputAtPath \/ WriteCsvAtPath

SpecOutputs == InitOutputs /\ [][NextOutputs]_vars

(***************************************************************************)
(* C29: in every CSV row the customer name, the customer email and the     *)
(* assigned agent are wrapped in double quotes with every double quote of  *)
(* the value doubled, so that a reader of the row finds twelve fields and  *)
(* the three values whole, whatever quotes and commas they contain.        *)
(***************************************************************************)
\* A reader of one CSV row. A comma separates two fields when it is outside
\* quotes, that is when an even number of double quotes precedes it; a field
\* written in quotes has the value between them, its doubled quotes read as
\* one.
QuotesBefore(row, at) ==
    Len(SelectSeq(SubSeq(row, 1, at - 1), LAMBDA ch : ch = "\""))

Separators(row) ==
    SelectSeq([x \in 1..Len(row) |-> x],
              LAMBDA x : row[x] = "," /\ QuotesBefore(row, x) % 2 = 0)

RawField(row, seps, n) ==
    SubSeq(row, IF n = 1 THEN 1 ELSE seps[n - 1] + 1,
           IF n = Len(seps) + 1 THEN Len(row) ELSE seps[n] - 1)

RECURSIVE Undoubled(_)
Undoubled(str) ==
    IF Len(str) = 0 THEN str
    ELSE IF Len(str) >= 2 /\ str[1] = "\"" /\ str[2] = "\""
         THEN <<"\"">> \o Undoubled(SubSeq(str, 3, Len(str)))
    ELSE <<Head(str)>> \o Undoubled(Tail(str))

ReadField(raw) ==
    IF Len(raw) >= 2 /\ raw[1] = "\"" /\ raw[Len(raw)] = "\""
    THEN [value |-> Undoubled(SubSeq(raw, 2, Len(raw) - 1)), quoted |-> TRUE]
    ELSE [value |-> raw, quoted |-> FALSE]

ReadRow(row) ==
    LET seps == Separators(row)
    IN [n \in 1..(Len(seps) + 1) |-> ReadField(RawField(row, seps, n))]

NumColumns == 12

C29_QuotedFieldsReadBack ==
    (pc = "returned" /\ csvFile # NoFile) =>
        LET rows == csvFile[1].rows
        IN /\ Len(rows) = Len(written[1].chats) + 1
           /\ \A x \in DOMAIN written[1].chats :
                 LET chat == written[1].chats[x]
                     fields == ReadRow(rows[x + 1])
                 IN /\ Len(fields) = NumColumns
                    /\ fields[4] = [value |-> OrEmpty(chat.customerName), quoted |-> TRUE]
                    /\ fields[5] = [value |-> OrEmpty(chat.customerEmail), quoted |-> TRUE]
                    /\ fields[6] = [value |-> OrEmpty(chat.assignedAgent), quoted |-> TRUE]

\* The row of a customer whose name holds a double quote and a comma.
C29_Witness ==
    /\ pc = "returned"
    /\ csvFile # NoFile
    /\ written[1].chats[1].customerName = << <<"\"", ",">> >>
    /\ written[1].chats[1].assignedAgent = << <<"\"">> >>
    /\ Len(csvFile[1].rows) = 2

(***************************************************************************)
(* C30: for every configured output path, also one that does not end in    *)
(* .json, the CSV summary goes to a path that differs from the primary     *)
(* output path, so once both writes are done the primary output file still *)
(* holds the JSON export.                                                  *)
(***************************************************************************)
C30_CsvBesidePrimary ==
    (pc = "returned" /\ written # Null) =>
        /\ csvFileName(cfg.outputFile) # cfg.outputFile
        /\ outputFile = written
        /\ csvFile = writtenCsv

(***************************************************************************)
(* main(): the constructor on the environment, then --clear-cache or       *)
(* export()                                                                *)
(***************************************************************************)
EnvValues == {None, NoName, "test_key"}
OrganizationIds == {None, NoName, "OSL"}

\* A constructor that also asks for the API secret.
ConstructsWithSecret(e) ==
    /\ e.HELPCRUNCH_API_KEY \notin {None, NoName}
    /\ e.HELPCRUNCH_API_SECRET \notin {None, NoName}
    /\ e.HELPCRUNCH_ORGANIZATION_ID \notin {None, NoName}

\* Line 17: if (!this.apiKey || !this.organizationId) throw
Constructs(e) ==
    /\ e.HELPCRUNCH_API_KEY \notin {None, NoName}
    /\ e.HELPCRUNCH_ORGANIZATION_ID \notin {None, NoName}

\* main() when the constructor throws (lines 627-628, 638-647): the catch
\* logs and calls process.exit(1).
MainFails ==
    /\ pc = "idle"
    /\ runs < MaxRuns
    /\ ~ Constructs(env)
    /\ pc' = "failed"
    /\ runs' = runs + 1
    /\ startFile' = cacheFile
    /\ UNCHANGED <<stepVars, csvFile, writtenCsv,
                   remote, cacheFile, outputFile, cfg, cache, offset,
                   requests, conversations, filteredConversations,
                   uncachedConversations, i, k, batchResults, newChatsCount,
                   processed, saves, written, prev>>

\* main() without --clear-cache: line 14 makes the organization id the
\* department filter.
MainExport ==
    /\ Constructs(env)
    /\ Start
    /\ cfg'.departmentFilter = env.HELPCRUNCH_ORGANIZATION_ID

\* main() with --clear-cache.
MainClearCache == Constructs(env) /\ ClearCache

InitMain ==
    /\ remote \in {RemoteList(2, FALSE), RemoteList(5, FALSE)}
    /\ cacheFile \in {NoFile, <<StaleCache>>}
    /\ outputFile = NoFile
    /\ csvFile = NoFile
    /\ runs = 0
    /\ startFile = cacheFile
    /\ prev = NoRun
    /\ pc = "idle"
    /\ writtenCsv = Null
    /\ \E key \in EnvValues, secret \in EnvValues, org \in OrganizationIds :
          env = Env(key, secret, org)
    /\ inflight = <<>>
    /\ endpoint = 1
    /\ probes = <<>>
    /\ messages = <<>>
    /\ result = Null
    /\ transcript = <<>>
    /\ category = None
    /\ cfg = NoConfig
    /\ cache = NoCache
    /\ offset = 0
    /\ requests = <<>>
    /\ conversations = <<>>
    /\ filteredConversations = <<>>
    /\ uncachedConversations = <<>>
    /\ i = 0
    /\ k = 1
    /\ batchResults = <<>>
    /\ newChatsCount = 0
    /\ processed = <<>>
    /\ saves = 0
    /\ written = Null

NextMain ==
    \/ MainFails
    \/ MainExport
    \/ MainClearCache
    \/ FetchPage
    \/ ListRequestFails
    \/ FilterAndDiff
    \/ WriteNothingNew
    \/ ProcessConversation
    \/ SaveCache
    \/ WriteOutput
    \/ WriteCsv
    \/ Exit

SpecMain == InitMain /\ [][NextMain]_vars

(***************************************************************************)
(* C31: the constructor succeeds whenever the API key and the organization *)
(* id are both configured, whatever the API secret is, and fails whenever  *)
(* either is missing; when it fails the process exits with a non-zero      *)
(* status and no request has been issued, the cache has not been read or   *)
(* written and no output file has been written.                            *)
(***************************************************************************)
IsSet(value) == value # None /\ value # NoName

Credentials == IsSet(env.HELPCRUNCH_API_KEY) /\ IsSet(env.HELPCRUNCH_ORGANIZATION_ID)

C32_RetriesBeforeGivingUp ==
    [][(ListRequestFailed /\ pc' = "failed") =>
          \E x \in DOMAIN requests :
             /\ requests[x].offset = requests'[Len(requests')].offset
             /\ ~ requests[x].hasData]_vars

(***************************************************************************)
(* C33: in a run that processes batches every uncached conversation is     *)
(* processed exactly once, in the order of the filtered list, in           *)
(* consecutive batches of 10 (the last one may be shorter); the run saves  *)
(* the cache at most ceil(U/10) times, and every cache file has            *)
(* lastProcessedBatch <= totalBatches.                                     *)
(***************************************************************************)
UncachedIds == [x \in DOMAIN uncachedConversations |-> uncachedConversations[x].id]

BatchesNeeded ==
    CHOOSE n \in 0..Len(uncachedConversations) :
        /\ n * 10 >= Len(uncachedConversations)
        /\ (n - 1) * 10 < Len(uncachedConversations)

\* The calls of processConversation so far follow the uncached list, batch
\* by batch.
InListOrder ==
    /\ IsPrefix(processed, UncachedIds)
    /\ pc = "process" => i % 10 = 0 /\ k \in 1..10 /\ Len(processed) = i + k - 1
    /\ pc = "save" =>
          /\ i % 10 = 0
          /\ Len(processed) = Min(i + 10, Len(uncachedConversations))
    /\ pc \in {"write", "csv"} => processed = UncachedIds

OncePerConversation ==
    \A x, y \in DOMAIN processed : x # y => processed[x] # processed[y]

C33_BatchesInOrder ==
    /\ (Len(uncachedConversations) > 0 /\ pc \in Running) =>
          /\ InListOrder
          /\ OncePerConversation
          /\ saves <= BatchesNeeded
    /\ \A x \in DOMAIN cacheFile :
          cacheFile[x].lastProcessedBatch <= cacheFile[x].totalBatches

(***************************************************************************)
(* C34: the message endpoints are requested only for a conversation that   *)
(* carries no inline message list. For a conversation with a messages      *)
(* array, empty or not, processConversation issues no message request and  *)
(* the chat is formatted from the inline list.                             *)
(***************************************************************************)
Inspected == uncachedConversations[1]

HasInlineList == Inspected.messages # Null

C34_InlineListNotProbed ==
    /\ probes # <<>> => ~ HasInlineList
    /\ (HasInlineList /\ result # Null) =>
          /\ probes = <<>>
          /\ result[1].messageCount = Len(Inspected.messages[1])
          /\ result[1].hasMessages = (Len(Inspected.messages[1]) > 0)
          /\ \E sorted \in SortOutcomes(Inspected.messages[1]) :
                result[1] = formatConversationWithMessages(Inspected, sorted)

\* A conversation with an empty inline list has been formatted.
C34_Witness ==
    /\ HasInlineList
    /\ Inspected.messages[1] = <<>>
    /\ result # Null
    /\ probes = <<>>

(***************************************************************************)
(* The two date filters on creation timestamps of every shape              *)
(***************************************************************************)
\* A JavaScript value: a number, a string (its characters), or undefined.
Num(n) == [kind |-> "number", n |-> n, text |-> <<>>]
Str(text) == [kind |-> "string", n |-> 0, text |-> text]
Undefined == [kind |-> "undefined", n |-> 0, text |-> <<>>]
JsNull == [kind |-> "null", n |-> 0, text |-> <<>>]

\* A number that may be NaN: <<n>>, or NaN.
NaN == <<>>

DecimalDigits == {"0", "1", "2", "3", "4", "5", "6", "7", "8", "9"}

DigitValue(ch) == CHOOSE n \in 0..9 : Digit(n) = ch

\* The number written by a sequence of digits.
RECURSIVE DigitsValue(_)
DigitsValue(digits) ==
    IF Len(digits) = 0 THEN 0
    ELSE DigitsValue(SubSeq(digits, 1, Len(digits) - 1)) * 10
             + DigitValue(digits[Len(digits)])

\* The longest prefix of the text made of digits.
RECURSIVE LeadingDigits(_)
LeadingDigits(text) ==
    IF Len(text) = 0 \/ text[1] \notin DecimalDigits THEN <<>>
    ELSE <<text[1]>> \o LeadingDigits(Tail(text))

\* The conversion of `value * 1000`: a string converts when it is empty or
\* all digits, undefined gives NaN and null gives 0.
ToNumber(value) ==
    CASE value.kind = "number" -> <<value.n>>
      [] value.kind = "string" ->
            IF LeadingDigits(value.text) = value.text
            THEN <<DigitsValue(value.text)>>
            ELSE NaN
      [] value.kind = "null" -> <<0>>
      [] OTHER -> NaN

\* parseInt: the leading digits of the value as a string, NaN when there
\* are none (the values here are whole, unsigned and free of leading blanks).
ParseInt(value) ==
    CASE value.kind = "number" -> <<value.n>>
      [] value.kind = "string" ->
            IF LeadingDigits(value.text) = <<>> THEN NaN
            ELSE <<DigitsValue(LeadingDigits(value.text))>>
      [] OTHER -> NaN

Truthy(value) ==
    CASE value.kind = "number" -> value.n # 0
      [] value.kind = "string" -> value.text # <<>>
      [] OTHER -> FALSE

\* A list item with its two creation timestamp keys.
DatedConversation(id, createdAt, created_at) ==
    [id |-> id, createdAt |-> createdAt, created_at |-> created_at,
     status |-> "open"]

\* Lines 166-170, with line 168's fromDate in milliseconds: a Date built
\* from NaN is invalid and compares false.
PassesFetchDate(conversation, fromDate) ==
    LET seconds == ToNumber(conversation.createdAt)
    IN seconds # NaN /\ seconds[1] * 1000 >= fromDate

\* Lines 162-163: toISOString throws RangeError on an invalid date.
LogDateThrows(conversation) == ToNumber(conversation.createdAt) = NaN

\* Lines 329, 349: conversation.created_at || conversation.createdAt || null
CreatedAtField(conversation) ==
    IF Truthy(conversation.created_at) THEN conversation.created_at
    ELSE IF Truthy(conversation.createdAt) THEN conversation.createdAt
    ELSE JsNull

\* Lines 326-330: the chat of a dated conversation.
FormatDated(conversation) ==
    [chatId |-> IdToString(conversation.id),
     createdAt |-> CreatedAtField(conversation),
     status |-> conversation.status]

\* Lines 467-471: fromDateTimestamp is the from date in seconds; the from
\* dates here are whole seconds.
PassesOutputFilter(chat, fromDate) ==
    LET chatCreatedAt == ParseInt(chat.createdAt)
    IN chatCreatedAt # NaN /\ chatCreatedAt[1] >= fromDate \div 1000

MaxDated == 2

\* FROM_DATE 1970-01-01T01:00:00Z and 1970-01-01T02:00:00Z, in milliseconds.
DatedFromDates == {3600000, 7200000}

\* 1970-01-01T01:23:20Z is 5000 seconds after the epoch.
IsoText ==
    <<"1", "9", "7", "0", "-", "0", "1", "-", "0", "1", "T",
      "0", "1", ":", "2", "3", ":", "2", "0", "Z">>

SecondsShapes ==
    {Undefined, Num(1000), Num(3600), Num(5000), Num(9000),
     Str(<<"5", "0", "0", "0">>)}

IsoShapes == {Undefined, Str(IsoText)}

RECURSIVE DatedLists(_)
DatedLists(n) ==
    IF n = 0 THEN {<<>>}
    ELSE LET shorter == DatedLists(n - 1)
         IN shorter \cup
            {Append(l, DatedConversation(Len(l) + 1, s, t)) :
                l \in {m \in shorter : Len(m) = n - 1},
                s \in SecondsShapes, t \in IsoShapes}

InitDates ==
    /\ remote \in DatedLists(MaxDated) \ {<<>>}
    /\ \E from \in DatedFromDates :
          cfg = [fromDate |-> from, departmentFilter |-> None]
    /\ pc = "fetch"
    /\ cache = FreshCache(cfg)
    /\ cacheFile = NoFile
    /\ outputFile = NoFile
    /\ csvFile = NoFile
    /\ written = Null
    /\ writtenCsv = Null
    /\ InitSteps
    /\ conversations = <<>>
    /\ offset = 0
    /\ requests = <<>>
    /\ filteredConversations = <<>>
    /\ uncachedConversations = <<>>
    /\ i = 0
    /\ k = 1
    /\ batchResults = <<>>
    /\ newChatsCount = 0
    /\ processed = <<>>
    /\ saves = 0
    /\ runs = 1
    /\ startFile = NoFile
    /\ prev = NoRun

datesFrame ==
    <<stepVars, remote, cfg, offset, runs, startFile, prev, csvFile,
      writtenCsv, i, k>>

\* Lines 153-177: the one page of the list, its log lines and date filter.
FetchDated ==
    /\ pc = "fetch"
    /\ requests' = Append(requests, [offset |-> offset, hasData |-> TRUE,
                                     total |-> Len(remote),
                                     size |-> Len(remote)])
    /\ IF LogDateThrows(remote[1]) \/ LogDateThrows(remote[Len(remote)])
       THEN pc' = "failed" /\ UNCHANGED conversations
       ELSE /\ conversations' =
                   SelectSeq(remote,
                             LAMBDA c : PassesFetchDate(c, cfg.fromDate))
            /\ pc' = "fetched"
    /\ UNCHANGED <<datesFrame, cache, cacheFile, outputFile, written,
                   filteredConversations, uncachedConversations,
                   batchResults, newChatsCount, processed, saves>>

\* Lines 380-460 for a list of fewer than ten conversations, none cached
\* and none filtered by department: one batch, pushed and saved.
ProcessDated ==
    /\ pc = "fetched"
    /\ IF Len(conversations) = 0
       THEN /\ pc' = "returned"
            /\ UNCHANGED <<filteredConversations, uncachedConversations,
                           batchResults, newChatsCount, processed, cache,
                           cacheFile, saves>>
       ELSE /\ filteredConversations' = conversations
            /\ uncachedConversations' = conversations
            /\ batchResults' =
                   [x \in DOMAIN conversations |-> FormatDated(conversations[x])]
            /\ newChatsCount' = Len(conversations)
            /\ processed' = [x \in DOMAIN conversations |-> conversations[x].id]
            /\ cache' = PushBatch(cache, batchResults', 0, Len(conversations))
            /\ cacheFile' = saveCache(cache')
            /\ saves' = 1
            /\ pc' = "write"
    /\ UNCHANGED <<datesFrame, conversations, requests, outputFile, written>>

\* Lines 465-485: the output with the chats that pass the output filter.
WriteDated ==
    /\ pc = "write"
    /\ LET filteredCachedChats ==
               SelectSeq(cache.chats,
                         LAMBDA chat : PassesOutputFilter(chat, cfg.fromDate))
       IN /\ written' = <<[chats |-> filteredCachedChats]>>
          /\ outputFile' = <<[chats |-> filteredCachedChats]>>
    /\ pc' = "returned"
    /\ UNCHANGED <<datesFrame, conversations, requests, cache, cacheFile,
                   filteredConversations, uncachedConversations,
                   batchResults, newChatsCount, processed, saves>>

NextDates == FetchDated \/ ProcessDated \/ WriteDated

SpecDates == InitDates /\ [][NextDates]_vars

(***************************************************************************)
(* C35: the two date filters agree. Every conversation that passed the     *)
(* date filter of the fetch and was processed in a batch run is in that    *)
(* run's output, whether its creation time is unix seconds under createdAt *)
(* or an ISO string under created_at: the filter of the output removes no  *)
(* chat the filter of the fetch admitted.                                  *)
(***************************************************************************)
C35_DateFiltersAgree ==
    (pc = "returned" /\ written # Null) =>
        \A x \in DOMAIN conversations :
            \E y \in DOMAIN written[1].chats :
                written[1].chats[y].chatId = IdToString(conversations[x].id)

(***************************************************************************)
(* mergeWithCache                                                          *)
(***************************************************************************)
\* Lines 99-106: the cached chats, then the new chats whose chatId is not
\* among the cached ones.
mergeWithCache(cachedChats, newChats) ==
    LET existingIds == {cachedChats[x].chatId : x \in DOMAIN cachedChats}
        uniqueNewChats ==
            SelectSeq(newChats, LAMBDA chat : chat.chatId \notin existingIds)
    IN cachedChats \o uniqueNewChats

MaxMergeIds == 2
MaxMergeLen == 2

\* Chats of the ids 1..MaxMergeIds, each as first exported (open) and as
\* exported again after it was closed.
MergeChats ==
    {[formatConversation(RemoteConversation(n, FALSE)) EXCEPT !.status = st] :
        n \in 1..MaxMergeIds, st \in {"open", "closed"}}

RECURSIVE ChatListsUpTo(_)
ChatListsUpTo(n) ==
    IF n = 0 THEN {<<>>}
    ELSE LET shorter == ChatListsUpTo(n - 1)
         IN shorter \cup {Append(l, c) : l \in shorter, c \in MergeChats}

InitMerge ==
    /\ \E cachedChats \in ChatListsUpTo(MaxMergeLen) :
          /\ \A x, y \in DOMAIN cachedChats :
                x # y => cachedChats[x].chatId # cachedChats[y].chatId
          /\ cache = [FreshCache(NoConfig) EXCEPT !.chats = cachedChats]
    /\ cacheFile = saveCache(cache)
    /\ startFile = cacheFile
    /\ batchResults \in ChatListsUpTo(MaxMergeLen)
    /\ pc = "merge"
    /\ cfg = NoConfig
    /\ remote = <<>>
    /\ outputFile = NoFile
    /\ csvFile = NoFile
    /\ written = Null
    /\ writtenCsv = Null
    /\ InitSteps
    /\ conversations = <<>>
    /\ offset = 0
    /\ requests = <<>>
    /\ filteredConversations = <<>>
    /\ uncachedConversations = <<>>
    /\ i = 0
    /\ k = 1
    /\ newChatsCount = 0
    /\ processed = <<>>
    /\ saves = 0
    /\ runs = 1
    /\ prev = NoRun

mergeFrame ==
    <<stepVars, remote, cacheFile, outputFile, cfg, offset, requests,
      conversations, filteredConversations, uncachedConversations, i, k,
      batchResults, newChatsCount, runs, startFile, processed, saves, prev,
      csvFile, writtenCsv>>

\* The new chats merged into the cached chats.
Merge ==
    /\ pc = "merge"
    /\ cache' = [cache EXCEPT !.chats = mergeWithCache(cache.chats, batchResults)]
    /\ pc' = "merged"
    /\ UNCHANGED <<mergeFrame, written>>

\* The same new chats merged into the result.
MergeAgain ==
    /\ pc = "merged"
    /\ written' = <<[chats |-> mergeWithCache(cache.chats, batchResults)]>>
    /\ pc' = "merged again"
    /\ UNCHANGED <<mergeFrame, cache>>

NextMerge == Merge \/ MergeAgain

SpecMerge == InitMerge /\ [][NextMerge]_vars

(***************************************************************************)
(* C36: mergeWithCache never introduces a duplicate chatId. For a          *)
(* duplicate-free cachedChats and any newChats, overlapping the cached     *)
(* ones or repeating a chatId among themselves, the result starts with     *)
(* cachedChats unchanged, has unique chatIds, and merging the same         *)
(* newChats into the result again returns the same sequence.               *)
(***************************************************************************)
C36_MergeKeepsIdsUnique ==
    /\ pc \in {"merged", "merged again"} =>
          /\ IsPrefix(FileChats(startFile), cache.chats)
          /\ NoDuplicates(cache.chats)
    /\ pc = "merged again" => written[1].chats = cache.chats

====
